---- MODULE Spec2Model ----
(***************************************************************************)
(* A model of the potato projection engine: the view pipeline              *)
(* (ViewDTO.from_domain / afrom_domain and the batch forms), declaration   *)
(* time validation of view projections (ViewDTOMeta), field-reference      *)
(* resolution (_resolve_field_value) and the reverse mapping engine        *)
(* (BuildDTO.to_domain / apply_to).                                        *)
(***************************************************************************)
EXTENDS Integers, Sequences, FiniteSets, TLC

VARIABLES
    mode,       \* "sync" (from_domains) or "async" (afrom_domains)
    cls,        \* the projection type the batch is built with
    entities,   \* the input list of the batch call
    context,    \* the context= argument of the batch call
    tasks,      \* per item: the state of its from_domain / afrom_domain call
    running,    \* the item whose pipeline holds control (0: the event loop)
    doneOrder,  \* the items in the order their pipelines returned
    out,        \* what the batch call handed to its caller
    declared,   \* the view projection types declared so far
    lastDecl,   \* the outcome of the latest class statement
    heap,       \* entity and build projection instances, by identity
    bq,         \* the latest build-side call: operation, projection, arguments
    br          \* the outcome of that call

vars == <<mode, cls, entities, context, tasks, running, doneOrder, out,
          declared, lastDecl, heap, bq, br>>

pipeVars == <<mode, cls, entities, context, tasks, running, doneOrder, out>>
declVars == <<declared, lastDecl>>
buildVars == <<heap, bq, br>>

(***************************************************************************)
(* Bounds                                                                  *)
(***************************************************************************)
MaxItems == 2
MaxFields == 2
MaxDepth == 2

(***************************************************************************)
(* Values.  Every Python value is a tagged record, so that a leaf, an      *)
(* object, None and the "missing" sentinel can be told apart.              *)
(***************************************************************************)
Str(s) == [t |-> "str", s |-> s]
NoneV == [t |-> "none"]
SENTINEL == [t |-> "missing"]
Obj(c, fs) == [t |-> "obj", cls |-> c, f |-> fs]

hasattr(o, name) == o.t = "obj" /\ name \in DOMAIN o.f
getattr(o, name) == o.f[name]
isinstance(o, tp) == o.t = "obj" /\ o.cls = tp

EmptyMap == [k \in {} |-> NoneV]
\* dict.update
update(a, b) ==
    [k \in DOMAIN a \cup DOMAIN b |-> IF k \in DOMAIN b THEN b[k] ELSE a[k]]
\* dict.pop(k, None) for every k of ks
popAll(a, ks) == [k \in DOMAIN a \ ks |-> a[k]]

Range(s) == {s[i] : i \in DOMAIN s}

(***************************************************************************)
(* Entities and contexts of the view side                                  *)
(***************************************************************************)
Address(city) == Obj("Address", [city |-> Str(city)])

User(id, username, email, city) ==
    Obj("User", [id |-> Str(id), username |-> Str(username),
                 email |-> Str(email), password_hash |-> Str("h" \o id),
                 address |-> Address(city)])

Users == {User("1", "alice", "a@x.com", "Paris"), User("2", "bob", "b@x.com", "Rome")}

\* class Order(Aggregate): buyer: User; seller: User; amount: str;
\*                         audit_key: Private[str]
Order(buyer, seller) ==
    Obj("Order", [buyer |-> buyer, seller |-> seller, amount |-> Str("100"),
                  audit_key |-> Str("k")])

Orders == {Order(b, s) : b \in Users, s \in Users}
InstancesOf(d) == IF d = "Order" THEN Orders ELSE Users

(***************************************************************************)
(* Entity and aggregate schemas: model_fields, the type hint of each field *)
(* and the fields declared Private[T].                                     *)
(***************************************************************************)
Schemas ==
    [ User    |-> [model_fields |-> <<"id", "username", "email", "password_hash", "address">>,
                   hints |-> [id |-> "str", username |-> "str", email |-> "str",
                              password_hash |-> "str", address |-> "Address"],
                   private |-> {"password_hash"},
                   aggregate |-> FALSE],
      Address |-> [model_fields |-> <<"city">>,
                   hints |-> [city |-> "str"],
                   private |-> {},
                   aggregate |-> FALSE],
      Order   |-> [model_fields |-> <<"buyer", "seller", "amount", "audit_key">>,
                   hints |-> [buyer |-> "User", seller |-> "User", amount |-> "str",
                              audit_key |-> "str"],
                   private |-> {"audit_key"},
                   aggregate |-> TRUE],
      \* class Customer(Domain): id: str; address: Address | None = None
      Customer |-> [model_fields |-> <<"id", "address">>,
                    hints |-> [id |-> "str", address |-> "Address | None"],
                    private |-> {},
                    aggregate |-> FALSE],
      \* class Team(Domain): name: str; lead: User; members: list[User]
      Team    |-> [model_fields |-> <<"name", "lead", "members">>,
                   hints |-> [name |-> "str", lead |-> "User", members |-> "list[User]"],
                   private |-> {},
                   aggregate |-> FALSE],
      \* class Marker(Domain): pass
      Marker  |-> [model_fields |-> <<>>,
                   hints |-> EmptyMap,
                   private |-> {},
                   aggregate |-> FALSE] ]

DomainNames == DOMAIN Schemas

\* AggregateMeta.__new__: the fields of an aggregate whose type is a Domain.
aggregate_domain_fields(d) ==
    IF d \in DomainNames /\ Schemas[d].aggregate
    THEN [f \in {g \in DOMAIN Schemas[d].hints : Schemas[d].hints[g] \in DomainNames}
            |-> Schemas[d].hints[f]]
    ELSE EmptyMap

is_private_field(d, f) == f \in Schemas[d].private

Permissions(is_admin) == Obj("Permissions", [is_admin |-> is_admin])

Contexts == {NoneV, Permissions(TRUE), Permissions(FALSE), Str("wrong")}

(***************************************************************************)
(* The registry of the projection type                                     *)
(*                                                                         *)
(*   class UserView(ViewDTO[User, <ctx>]):                                 *)
(*       id: str                                                           *)
(*       login: str = Field(source=User.username, transform=upper)         *)
(*       username: str = Field(visible=lambda ctx: True)                   *)
(*       email: str = Field(visible=lambda ctx: ctx.is_admin)              *)
(*       note: str = ""                                                    *)
(*       @computed      def display(self, user: User)                      *)
(*       @before_build  def enrich(cls, entity)                            *)
(*       @after_build   def check(self)                                    *)
(***************************************************************************)
NoType == "-"

\* The second generic argument: absent, Permissions, Permissions | None.
ContextArgs == {{}, {"Permissions"}, {"Permissions", "NoneType"}}

is_optional_context_type(args) ==
    LET non_none == args \ {"NoneType"}
    IN  IF "NoneType" \in args /\ Cardinality(non_none) = 1
        THEN <<TRUE, CHOOSE a \in non_none : TRUE>>
        ELSE <<FALSE, CHOOSE a \in args : TRUE>>

Field(source, transform, visible) ==
    [source |-> source, transform |-> transform, visible |-> visible]

FieldRef(owner, ns, path) == [model_cls |-> owner, namespace |-> ns, path |-> path]
NoNamespace == "-"
NoSource == FieldRef("-", NoNamespace, <<>>)

\* Domain.field: DomainMeta.__getattr__ returns FieldProxy(cls, name)
field_proxy(owner, field) == FieldRef(owner, NoNamespace, <<field>>)

\* Aggregate.ns.<path>: AggregateMeta.__getattr__ returns an accessor for the
\* entity type of ns, whose attributes are references carrying the namespace
domain_field_accessor(agg, ns, path) ==
    FieldRef(aggregate_domain_fields(agg)[ns], ns, path)

\* The class ViewDTO itself.
ViewDTO ==
    [ name |-> "ViewDTO",
      generic_args |-> <<>>,
      context_args |-> {},
      domain_cls |-> NoType,
      context_type |-> NoType,
      context_required |-> FALSE,
      is_aggregate_view |-> FALSE,
      model_fields |-> <<>>,
      defaults |-> EmptyMap,
      potato_fields |-> EmptyMap,
      potato_order |-> <<>>,
      field_mappings |-> EmptyMap,
      mapping_order |-> <<>>,
      computed_methods |-> <<>>,
      computed_fns |-> EmptyMap,
      before_build_hooks |-> <<>>,
      after_build_hooks |-> <<>>,
      nested_hints |-> EmptyMap ]

\* A class statement: its name, its base class, and its body.
ClassStmt(name, base, generic_args, annotations, potato, potato_order, defaults, computed, before, after) ==
    [ name |-> name, base |-> base, generic_args |-> generic_args,
      annotations |-> annotations, potato |-> potato, potato_order |-> potato_order,
      defaults |-> defaults, computed |-> computed, before |-> before, after |-> after ]

\* s followed by the elements of t that s does not hold (dict key order)
RECURSIVE MergeOrder(_, _)
MergeOrder(s, t) ==
    IF t = <<>> THEN s
    ELSE MergeOrder(IF Head(t) \in Range(s) THEN s ELSE Append(s, Head(t)), Tail(t))

\* extract_field_mappings: the (model_cls, namespace, path) of every field
\* declared with Field(source=<reference>)
extract_field_mappings(potato_fields) ==
    [f \in {g \in DOMAIN potato_fields : potato_fields[g].source # NoSource}
       |-> potato_fields[f].source]

RECURSIVE path_valid(_, _, _)
path_valid(current_cls, path, i) ==
    IF i > Len(path) THEN TRUE
    ELSE IF current_cls \notin DomainNames THEN TRUE
    ELSE IF path[i] \notin Range(Schemas[current_cls].model_fields) THEN FALSE
    ELSE LET step_type == Schemas[current_cls].hints[path[i]]
         IN  IF step_type \in DomainNames
             THEN path_valid(step_type, path, i + 1)
             ELSE TRUE

\* A variant that lets a reference to any type through.
invalid_mapping_path_only(ref, domain_cls) ==
    LET is_aggregate == Schemas[domain_cls].aggregate
        agg_fields == aggregate_domain_fields(domain_cls)
        target_cls ==
            IF ref.namespace # NoNamespace /\ is_aggregate
               /\ ref.namespace \in DOMAIN agg_fields
            THEN agg_fields[ref.namespace]
            ELSE ref.model_cls
    IN  ~path_valid(target_cls, ref.path, 1)

\* lines 338-397: the body of the loop over the mappings, TRUE when it
\* raises TypeError for the reference
invalid_mapping(ref, domain_cls) ==
    LET is_aggregate == Schemas[domain_cls].aggregate
        agg_fields == aggregate_domain_fields(domain_cls)
        allowed == IF is_aggregate
                   THEN {agg_fields[f] : f \in DOMAIN agg_fields} \cup {domain_cls}
                   ELSE {domain_cls}
        target_cls ==
            IF ref.namespace # NoNamespace /\ is_aggregate
               /\ ref.namespace \in DOMAIN agg_fields
            THEN agg_fields[ref.namespace]
            ELSE ref.model_cls
    IN  \/ ref.model_cls \notin allowed
        \/ ~path_valid(target_cls, ref.path, 1)

validate_viewdto_field_mappings(field_mappings, domain_cls) ==
    IF \E f \in DOMAIN field_mappings : invalid_mapping(field_mappings[f], domain_cls)
    THEN "TypeError" ELSE "ok"

\* The projection and the field the TypeError message names: the first
\* mapping, in dict order, for which the loop raises.
NoBlame == [cls |-> "-", field |-> "-"]
named_in_error(name, order, field_mappings, domain_cls) ==
    LET bad == {k \in DOMAIN order : invalid_mapping(field_mappings[order[k]], domain_cls)}
    IN  IF bad = {} THEN NoBlame
        ELSE [cls |-> name, field |-> order[CHOOSE k \in bad : \A j \in bad : k <= j]]

validate_no_private_fields(model_fields, domain_cls) ==
    IF \E f \in DOMAIN Schemas[domain_cls].hints :
          f \in Range(model_fields) /\ is_private_field(domain_cls, f)
    THEN "TypeError" ELSE "ok"

\* A variant that looks for the generic arguments on a directly subscripted
\* base only, not on a parent projection type.
bound_args_direct_only(base) ==
    IF base.name = "ViewDTO[]" THEN base.generic_args ELSE <<>>

\* lines 178-187: the generic arguments found on the base class
bound_args(base) == base.generic_args

\* A variant in which the parent's entry wins over the child's.
merge_parent_metadata_parent_wins(parent, child) == update(child, parent)

\* lines 268-317: merged = {**parent, **child}
merge_parent_metadata(parent, child) == update(parent, child)

\* A variant that merges the child's entries into the parent's dict.
parent_after_merge_in_place(parent, child) == update(parent, child)

\* lines 268-317: {**parent, **child} is a new dict; the dict of the parent
\* is what it was
parent_after_merge(parent, child) == parent

ViewDTOMeta(stmt) ==
    LET base == stmt.base
        model_fields == MergeOrder(base.model_fields, stmt.annotations)
        defaults == update(base.defaults, stmt.defaults)
        \* lines 165-175: own metadata shadows the inherited attribute
        own_potato == IF stmt.potato_order # <<>> THEN stmt.potato ELSE base.potato_fields
        own_porder == IF stmt.potato_order # <<>> THEN stmt.potato_order ELSE base.potato_order
        own_computed == IF stmt.computed # <<>> THEN stmt.computed ELSE base.computed_methods
        \* the function each own @computed name is bound to, by qualified name
        own_fns == IF stmt.computed # <<>>
                   THEN [n \in Range(stmt.computed) |-> stmt.name \o "." \o n]
                   ELSE base.computed_fns
        own_before == IF stmt.before # <<>> THEN stmt.before ELSE base.before_build_hooks
        own_after == IF stmt.after # <<>> THEN stmt.after ELSE base.after_build_hooks
        \* lines 178-198
        args == bound_args(base)
        domain_cls == IF args # <<>> THEN args[1] ELSE NoType
        ctx_args == IF args # <<>> THEN args[2] ELSE {}
        oc == IF ctx_args = {} THEN <<TRUE, NoType>> ELSE is_optional_context_type(ctx_args)
        \* lines 268-317, _merge_parent_metadata
        potato_fields == IF base.potato_order # <<>>
                         THEN merge_parent_metadata(base.potato_fields, own_potato)
                         ELSE own_potato
        potato_order == IF base.potato_order # <<>>
                        THEN MergeOrder(base.potato_order, own_porder) ELSE own_porder
        computed == IF base.computed_methods # <<>>
                    THEN MergeOrder(base.computed_methods, own_computed) ELSE own_computed
        computed_fns == IF base.computed_methods # <<>>
                        THEN merge_parent_metadata(base.computed_fns, own_fns)
                        ELSE own_fns
        ctx_required == IF ctx_args # {} /\ ~oc[1] THEN TRUE ELSE base.context_required
        is_agg == IF domain_cls # NoType /\ Schemas[domain_cls].aggregate THEN TRUE
                  ELSE base.is_aggregate_view
        before == IF base.before_build_hooks # <<>>
                  THEN base.before_build_hooks \o own_before ELSE own_before
        after == IF base.after_build_hooks # <<>>
                 THEN base.after_build_hooks \o own_after ELSE own_after
        \* lines 216-227
        field_mappings == extract_field_mappings(potato_fields)
        v1 == IF DOMAIN field_mappings # {} /\ domain_cls # NoType
              THEN validate_viewdto_field_mappings(field_mappings, domain_cls) ELSE "ok"
        v2 == IF domain_cls # NoType
              THEN validate_no_private_fields(model_fields, domain_cls) ELSE "ok"
    IN  [ err |-> IF v1 # "ok" THEN v1 ELSE v2,
          \* the base class once the statement has run
          base |-> [base EXCEPT
                      !.potato_fields =
                          IF base.potato_order # <<>>
                          THEN parent_after_merge(@, own_potato) ELSE @,
                      !.computed_fns =
                          IF base.computed_methods # <<>>
                          THEN parent_after_merge(@, own_fns) ELSE @],
          blame |-> IF v1 # "ok"
                    THEN named_in_error(stmt.name,
                             SelectSeq(potato_order, LAMBDA f : f \in DOMAIN field_mappings),
                             field_mappings, domain_cls)
                    ELSE NoBlame,
          cls |-> [ name |-> stmt.name,
                    generic_args |-> IF stmt.generic_args # <<>> THEN stmt.generic_args
                                     ELSE base.generic_args,
                    context_args |-> ctx_args,
                    domain_cls |-> IF domain_cls # NoType THEN domain_cls ELSE base.domain_cls,
                    context_type |-> IF ctx_args # {} THEN oc[2] ELSE base.context_type,
                    context_required |-> ctx_required,
                    is_aggregate_view |-> is_agg,
                    model_fields |-> model_fields,
                    defaults |-> defaults,
                    potato_fields |-> potato_fields,
                    potato_order |-> potato_order,
                    field_mappings |-> IF DOMAIN field_mappings # {} THEN field_mappings
                                       ELSE base.field_mappings,
                    mapping_order |->
                        SelectSeq(potato_order, LAMBDA f : f \in DOMAIN field_mappings),
                    computed_methods |-> computed,
                    computed_fns |-> computed_fns,
                    before_build_hooks |-> before,
                    after_build_hooks |-> after,
                    \* the annotations whose type is a projection type or a list
                    \* of one; a class body of the model that has such fields
                    \* names them after the statement
                    nested_hints |-> base.nested_hints ] ]

\* ViewDTO.__class_getitem__: class _GenericViewDTO(cls) carrying the arguments
class_getitem(domain, ctxArgs) ==
    ViewDTOMeta(ClassStmt("ViewDTO[]", ViewDTO, <<domain, ctxArgs>>, <<>>, EmptyMap,
                          <<>>, EmptyMap, <<>>, <<>>, <<>>)).cls

UserView(ctxArgs) ==
    ViewDTOMeta(ClassStmt("UserView", class_getitem("User", ctxArgs), <<>>,
        <<"id", "login", "username", "email", "note">>,
        [login    |-> Field(FieldRef("User", NoNamespace, <<"username">>), "upper", "-"),
         username |-> Field(NoSource, "-", "always"),
         email    |-> Field(NoSource, "-", "is_admin")],
        <<"login", "username", "email">>,
        [note |-> Str("")],
        <<"display">>, <<"enrich">>, <<"check">>)).cls

\* class OrderView(ViewDTO[Order]):
\*     buyer_id: str = Field(source=Order.buyer.id)
\*     seller_id: str = Field(source=Order.seller.id)
\*     buyer_city: str = Field(source=Order.buyer.address.city)
\*     amount: str
OrderView ==
    ViewDTOMeta(ClassStmt("OrderView", class_getitem("Order", {}), <<>>,
        <<"buyer_id", "seller_id", "buyer_city", "amount">>,
        [buyer_id   |-> Field(domain_field_accessor("Order", "buyer", <<"id">>), "-", "-"),
         seller_id  |-> Field(domain_field_accessor("Order", "seller", <<"id">>), "-", "-"),
         buyer_city |-> Field(domain_field_accessor("Order", "buyer", <<"address", "city">>),
                              "-", "-")],
        <<"buyer_id", "seller_id", "buyer_city">>,
        EmptyMap, <<>>, <<>>, <<>>)).cls

(***************************************************************************)
(* Pure steps of the pipeline                                              *)
(***************************************************************************)
\* A variant that checks the type of a required context only.
validate_context_required_only(c, ctx) ==
    IF c.context_required /\ ctx = NoneV
    THEN "TypeError"
    ELSE IF c.context_required /\ ctx # NoneV /\ ~isinstance(ctx, c.context_type)
         THEN "TypeError"
         ELSE "ok"

validate_context(c, ctx) ==
    IF c.context_required /\ ctx = NoneV
    THEN "TypeError"
    ELSE IF c.context_type # NoType /\ ctx # NoneV /\ ~isinstance(ctx, c.context_type)
         THEN "TypeError"
         ELSE "ok"

\* A variant that navigates to the first field of the aggregate holding an
\* entity of the namespace's type, not to the namespace itself.
resolve_field_value_by_type(entity, namespace, path, is_aggregate) ==
    LET first == IF hasattr(entity, namespace)
                 THEN LET order == Schemas[entity.cls].model_fields
                          k == CHOOSE k \in DOMAIN order :
                                 /\ getattr(entity, order[k]).t = "obj"
                                 /\ getattr(entity, order[k]).cls = getattr(entity, namespace).cls
                                 /\ \A j \in 1..(k - 1) :
                                      ~(/\ getattr(entity, order[j]).t = "obj"
                                        /\ getattr(entity, order[j]).cls
                                             = getattr(entity, namespace).cls)
                      IN  getattr(entity, order[k])
                 ELSE SENTINEL
        target == IF namespace # NoNamespace /\ is_aggregate THEN first ELSE entity
        walk[i \in 0..Len(path)] ==
            IF i = 0 THEN target
            ELSE IF walk[i - 1] # SENTINEL /\ hasattr(walk[i - 1], path[i])
                 THEN getattr(walk[i - 1], path[i]) ELSE SENTINEL
    IN  walk[Len(path)]

resolve_field_value(entity, namespace, path, is_aggregate) ==
    LET target == IF namespace # NoNamespace /\ is_aggregate
                  THEN IF hasattr(entity, namespace)
                       THEN getattr(entity, namespace) ELSE SENTINEL
                  ELSE entity
        walk[i \in 0..Len(path)] ==
            IF i = 0 THEN target
            ELSE IF walk[i - 1] # SENTINEL /\ hasattr(walk[i - 1], path[i])
                 THEN getattr(walk[i - 1], path[i]) ELSE SENTINEL
    IN  walk[Len(path)]

\* The transforms the projection type declares: upper(value).
apply_transform(field_def, value, ctx) ==
    IF field_def.transform = "upper" /\ value.t = "str"
    THEN Str("UP(" \o value.s \o ")")
    ELSE value

\* A visibility predicate applied to a context: "true", "false", or "raise"
\* when the predicate reads an attribute the context does not have.
visible(p, ctx) ==
    IF p = "always" THEN "true"
    ELSE IF hasattr(ctx, "is_admin")
         THEN (IF getattr(ctx, "is_admin") THEN "true" ELSE "false")
         ELSE "raise"

\* A variant that shows every field when no context is passed.
compute_hidden_fields_lenient(c, ctx) ==
    LET named == {n \in DOMAIN c.potato_fields : c.potato_fields[n].visible # "-"}
    IN  IF ctx = NoneV THEN [err |-> "ok", hidden |-> {}]
        ELSE IF \E n \in named : visible(c.potato_fields[n].visible, ctx) = "raise"
             THEN [err |-> "AttributeError", hidden |-> {}]
             ELSE [err |-> "ok",
                   hidden |-> {n \in named :
                                 visible(c.potato_fields[n].visible, ctx) = "false"}]

compute_hidden_fields(c, ctx) ==
    LET named == {n \in DOMAIN c.potato_fields : c.potato_fields[n].visible # "-"}
    IN  IF ctx = NoneV THEN [err |-> "ok", hidden |-> named]
        ELSE IF \E n \in named : visible(c.potato_fields[n].visible, ctx) = "raise"
             THEN [err |-> "AttributeError", hidden |-> {}]
             ELSE [err |-> "ok",
                   hidden |-> {n \in named :
                                 visible(c.potato_fields[n].visible, ctx) = "false"}]

\* pydantic construction of the frozen projection, cls(**data), with
\* extra="ignore": declared fields only, defaults for the absent ones.
NoInstance == [t |-> "noinstance"]
construct(c, data) ==
    LET names == Range(c.model_fields)
    IN  IF \E n \in names : n \notin DOMAIN data /\ n \notin DOMAIN c.defaults
        THEN [err |-> "ValidationError", instance |-> NoInstance]
        ELSE [err |-> "ok",
              instance |->
                [t |-> "view",
                 fields |-> [n \in names |->
                               IF n \in DOMAIN data THEN data[n] ELSE c.defaults[n]],
                 computed |-> EmptyMap,
                 hidden |-> {}]]

\* Reading an attribute of a live projection.
view_getattr(inst, name) ==
    IF name \in DOMAIN inst.computed THEN inst.computed[name] ELSE inst.fields[name]

\* The functions of the application that raise: a pre-build hook guard, a
\* transform strict, a computed function risky and the post-build hooks
\* validate_username and audit, each with
\*   if <arg is bob's>: raise ValueError(...)
raises(fn, arg) ==
    IF fn \notin {"guard", "strict", "risky", "validate_username", "audit"} THEN "-"
    ELSE IF \/ arg.t = "str" /\ arg = Str("bob")
            \/ arg.t = "obj" /\ hasattr(arg, "id") /\ getattr(arg, "id") = Str("2")
            \/ arg.t = "view" /\ "id" \in DOMAIN arg.fields /\ arg.fields["id"] = Str("2")
         THEN "ValueError(" \o fn \o ")"
         ELSE "-"

\* The parameters of the application's functions, as inspect.signature
\* gives them: name and annotation.
\*   def received(self, buyer: User, seller: User, order: Order, whole, context)
\*   def collect(cls, seller: User, context)
\*   def audit(self, seller: User)
\*   def display(self, user: User), and in AdminView  def display(self, user)
\*   def check(self), def validate_username(self)
\* and every other one is  def f(self_or_cls, entity).
NoAnnotation == "-"
Param(name, annotation) == [name |-> name, annotation |-> annotation]

signature(fn) ==
    CASE fn = "received" ->
           <<Param("self", NoAnnotation), Param("buyer", "User"), Param("seller", "User"),
             Param("order", "Order"), Param("whole", NoAnnotation),
             Param("context", NoAnnotation)>>
      [] fn = "collect" ->
           <<Param("cls", NoAnnotation), Param("seller", "User"),
             Param("context", NoAnnotation)>>
      [] fn = "audit" -> <<Param("self", NoAnnotation), Param("seller", "User")>>
      [] fn = "display" -> <<Param("self", NoAnnotation), Param("user", "User")>>
      [] fn = "AdminView.display" ->
           <<Param("self", NoAnnotation), Param("user", NoAnnotation)>>
      [] fn \in {"check", "validate_username"} -> <<Param("self", NoAnnotation)>>
      [] OTHER -> <<Param("self", NoAnnotation), Param("entity", NoAnnotation)>>

\* A parameter that is given no argument.
Unbound == [t |-> "unbound"]

\* A variant that hands a parameter the sub-entity of the aggregate field
\* of the parameter's name.
first_sub_entity_by_name(entity, p) ==
    IF hasattr(entity, p.name) /\ isinstance(getattr(entity, p.name), p.annotation)
    THEN getattr(entity, p.name)
    ELSE Unbound

\* lines 111-116 / 754-759 / 787-792: the sub-entity of the first field of
\* __aggregate_domain_fields__, in declaration order, whose value is there
\* and is an instance of the annotation
first_sub_entity(entity, p) ==
    LET order == Schemas[entity.cls].model_fields
        agg == aggregate_domain_fields(entity.cls)
        hits == {k \in DOMAIN order :
                   /\ order[k] \in DOMAIN agg
                   /\ hasattr(entity, order[k])
                   /\ isinstance(getattr(entity, order[k]), p.annotation)}
    IN  IF hits = {} THEN Unbound
        ELSE getattr(entity, order[CHOOSE k \in hits : \A j \in hits : k <= j])

\* lines 106-118 / 749-762 / 782-795: the argument for one parameter
match_parameter(p, entity, ctx) ==
    IF p.name = "context" THEN ctx
    ELSE IF p.annotation # NoAnnotation
         THEN IF isinstance(entity, p.annotation) THEN entity
              ELSE IF /\ entity.t = "obj" /\ entity.cls \in DomainNames
                      /\ Schemas[entity.cls].aggregate
                   THEN first_sub_entity(entity, p)
                   ELSE Unbound
         ELSE entity

\* The keyword arguments built for a function with the parameters sig, the
\* parameters named in skip left out.
bound_parameters(sig, skip, matched) ==
    LET ps == {k \in DOMAIN sig : sig[k].name \notin skip /\ matched[k] # Unbound}
    IN  [n \in {sig[k].name : k \in ps} |-> matched[CHOOSE k \in ps : sig[k].name = n]]

match_parameters(sig, skip, entity, ctx) ==
    bound_parameters(sig, skip, [k \in DOMAIN sig |-> match_parameter(sig[k], entity, ctx)])

\* lines 100-119, _build_hook_kwargs
build_hook_kwargs(sig, entity, ctx) == match_parameters(sig, {"cls", "self"}, entity, ctx)

\* lines 746-762 / 779-795, the loop of _inject_computed_fields
computed_kwargs(sig, entity, ctx) == match_parameters(sig, {"self"}, entity, ctx)

\* Calling a function without one of its parameters is a TypeError.
missing_argument(sig, kwargs) ==
    \E k \in DOMAIN sig : sig[k].name \notin {"cls", "self"} \cup DOMAIN kwargs

\* What a function that returns its arguments returns.
Received(kwargs) == [t |-> "args", kw |-> kwargs]

\* The entity argument of a function with one such parameter.
entity_argument(kwargs) == kwargs[CHOOSE n \in DOMAIN kwargs : n # "context"]

\* A dict returned by a function, and a list of (key, value) pairs.
Dict(d) == [t |-> "dict", d |-> d]
Pairs(d) == [t |-> "pairs", d |-> d]

\* What the pre-build hooks of the application return:
\*   def enrich(cls, entity):  return {"note": "n" + entity.id}
\*   def stamp(cls, entity):   return {"note": "s", "login": "stamped"}
\*   def relabel(cls, entity): return {"login": "relabel", "username": "r"}
\*   def tag(cls, entity):     return [("login", "tag"), ("note", "t")]
\* and every other one returns None.
before_hook(h, entity, ctx) ==
    CASE h = "enrich" /\ hasattr(entity, "id") ->
           Dict([note |-> Str("n" \o getattr(entity, "id").s)])
      [] h = "stamp" -> Dict([note |-> Str("s"), login |-> Str("stamped")])
      [] h = "relabel" -> Dict([login |-> Str("relabel"), username |-> Str("r")])
      [] h = "tag" -> Pairs([login |-> Str("tag"), note |-> Str("t")])
      [] OTHER -> NoneV

\* lines 516-520 / 581-586: func(cls, **hook_kwargs) for one pre-build
\* hook; collect returns {"collected": (seller, context)}
before_hook_called(h, sig, kwargs, ctx) ==
    IF missing_argument(sig, kwargs)
    THEN [err |-> "TypeError", result |-> NoneV]
    ELSE IF h = "collect"
    THEN [err |-> "-", result |-> Dict([collected |-> Received(kwargs)])]
    ELSE [err |-> raises(h, entity_argument(kwargs)),
          result |-> before_hook(h, entity_argument(kwargs), ctx)]

call_before_hook(h, entity, ctx) ==
    before_hook_called(h, signature(h), build_hook_kwargs(signature(h), entity, ctx), ctx)

\* lines 542-547 / 609-615: hook(instance, **hook_kwargs) for one post-build
\* hook, what it raises
after_hook_called(h, inst, sig, kwargs) ==
    IF missing_argument(sig, kwargs) THEN "TypeError"
    ELSE raises(h, IF h = "audit" THEN kwargs["seller"] ELSE inst)

call_after_hook(h, inst, entity, ctx) ==
    after_hook_called(h, inst, signature(h), build_hook_kwargs(signature(h), entity, ctx))

\* A variant in which the first hook to return a field keeps it.
merge_hook_result_first_wins(extra_data, result) ==
    IF result.t = "dict" THEN update(result.d, extra_data) ELSE extra_data

\* A variant that merges whatever dict() accepts.
merge_hook_result_any(extra_data, result) ==
    IF result.t \in {"dict", "pairs"} THEN update(extra_data, result.d) ELSE extra_data

\* lines 522-523 / 589-590:
\*   if isinstance(result, dict): extra_data.update(result)
merge_hook_result(extra_data, result) ==
    IF result.t = "dict" THEN update(extra_data, result.d) ELSE extra_data

\* A variant in which a mapped value is kept over a hook's value.
merge_extra_data_mapped_wins(mapped_data, extra_data) == update(extra_data, mapped_data)

\* line 527 / 594: mapped_data.update(extra_data)
merge_extra_data(mapped_data, extra_data) == update(mapped_data, extra_data)

\* @computed def display(self, user: User): return self.login + "/" + user.id
\* and, in a child type, def display(self, user): return "adm/" + user.id
computed_method(fn, inst, entity, ctx) ==
    IF inst.t # "view" THEN Str("<unbound>")
    ELSE LET id == IF hasattr(entity, "id") THEN getattr(entity, "id").s ELSE "?"
         IN  IF fn = "AdminView.display" THEN Str("adm/" \o id)
             ELSE IF "login" \in DOMAIN inst.fields /\ inst.fields["login"].t = "str"
                  THEN Str(inst.fields["login"].s \o "/" \o id)
                  ELSE Str("c/" \o id)

(***************************************************************************)
(* Serialization                                                           *)
(***************************************************************************)
\* A variant that writes a mapped field under the name of its source field.
model_dump_source_keys(c, inst) ==
    LET key(n) == IF n \in DOMAIN c.field_mappings
                  THEN c.field_mappings[n].path[Len(c.field_mappings[n].path)] ELSE n
        shown == DOMAIN inst.fields \ inst.hidden
    IN  [k \in {key(n) : n \in shown} |->
           inst.fields[CHOOSE n \in shown : key(n) = k]]

\* line 803, super().model_dump(**kwargs), for one field value: pydantic
\* serialises a nested model from its schema, that is every declared field
\* of it and nothing else, without calling the nested type's model_dump.
RECURSIVE to_python(_)
to_python(v) ==
    IF v.t = "view" THEN Dict([n \in DOMAIN v.fields |-> to_python(v.fields[n])])
    ELSE IF v.t = "list" THEN [v EXCEPT !.items = [k \in DOMAIN v.items |-> to_python(v.items[k])]]
    ELSE v

\* lines 801-826: the declared fields, then the computed fields, less the
\* hidden ones
model_dump(c, inst) ==
    LET result == [n \in DOMAIN inst.fields |-> to_python(inst.fields[n])]
        withComputed ==
            update(result,
                   [n \in Range(c.computed_methods) |->
                      IF n \in DOMAIN inst.computed THEN inst.computed[n] ELSE NoneV])
    IN  popAll(withComputed, inst.hidden)

\* json.dumps of one value
json_dumps(v) ==
    IF v.t = "str" THEN "\"" \o v.s \o "\""
    ELSE IF v.t = "none" THEN "null" ELSE "{}"

\* The members of the JSON object model_dump_json writes, in dict order.
RECURSIVE json_members(_, _)
json_members(keys, data) ==
    IF keys = <<>> THEN <<>>
    ELSE IF Head(keys) \in DOMAIN data
         THEN <<[key |-> Head(keys), value |-> json_dumps(data[Head(keys)])]>>
              \o json_members(Tail(keys), data)
         ELSE json_members(Tail(keys), data)

model_dump_json(c, inst) ==
    json_members(c.model_fields \o c.computed_methods, model_dump(c, inst))

(***************************************************************************)
(* The pipeline of from_domain / afrom_domain as the list of its steps,    *)
(* in the order the method body runs them.                                 *)
(***************************************************************************)
Op(k, n) == [k |-> k, n |-> n]

\* A variant that runs the post-build hooks before the computed fields.
from_domain_hooks_first(c) ==
    <<Op("validate", "-")>>
    \o [i \in 1..Len(c.before_build_hooks) |-> Op("before", c.before_build_hooks[i])]
    \o [i \in 1..Len(c.mapping_order) |-> Op("map", c.mapping_order[i])]
    \o <<Op("automap", "-"), Op("hidden", "-"), Op("construct", "-")>>
    \o [i \in 1..Len(c.after_build_hooks) |-> Op("after", c.after_build_hooks[i])]
    \o [i \in 1..Len(c.computed_methods) |-> Op("computed", c.computed_methods[i])]
    \o <<Op("return", "-")>>

from_domain(c) ==
    <<Op("validate", "-")>>
    \o [i \in 1..Len(c.before_build_hooks) |-> Op("before", c.before_build_hooks[i])]
    \o [i \in 1..Len(c.mapping_order) |-> Op("map", c.mapping_order[i])]
    \o <<Op("automap", "-"), Op("hidden", "-"), Op("construct", "-")>>
    \o [i \in 1..Len(c.computed_methods) |-> Op("computed", c.computed_methods[i])]
    \o [i \in 1..Len(c.after_build_hooks) |-> Op("after", c.after_build_hooks[i])]
    \o <<Op("return", "-")>>

\* A Python list
List(items) == [t |-> "list", items |-> items]

\* get_type_hints(parent_cls), for the fields whose type is a projection
\* type or a list of one: _unwrap_list_type and the projection type
get_type_hints(c) == c.nested_hints

\* The values of an entity a nested projection can be built from: its
\* attributes and the elements of its list attributes.
NestedSources(entity) ==
    IF entity.t # "obj" THEN {}
    ELSE {entity.f[a] : a \in DOMAIN entity.f}
         \cup UNION {Range(entity.f[a].items) : a \in {b \in DOMAIN entity.f :
                                                          entity.f[b].t = "list"}}

\* In the steps below, nested[f][v] stands for what
\* field_type.from_domain(v, context=context) returns, or raises, for the
\* projection type of field f.

\* A variant that returns the elements' projections in reverse order.
maybe_build_nested_viewdto_reversed(parent_cls, f, value, nested) ==
    LET hints == get_type_hints(parent_cls)
        build(v) == IF v \in DOMAIN nested[f] THEN nested[f][v]
                    ELSE [err |-> "-", instance |-> v]
    IN  IF value = NoneV \/ f \notin DOMAIN hints THEN [err |-> "-", value |-> value]
        ELSE IF hints[f].is_list
        THEN IF value.t # "list" THEN [err |-> "-", value |-> value]
             ELSE LET rs == [k \in DOMAIN value.items |-> build(value.items[k])]
                      bad == {k \in DOMAIN rs : rs[k].err # "-"}
                  IN  IF bad # {}
                      THEN [err |-> rs[CHOOSE k \in bad : \A j \in bad : k <= j].err,
                            value |-> value]
                      ELSE [err |-> "-",
                            value |-> List([k \in DOMAIN rs |->
                                              rs[Len(rs) + 1 - k].instance])]
        ELSE LET r == build(value)
             IN  [err |-> r.err, value |-> IF r.err = "-" THEN r.instance ELSE value]

\* lines 867-897 / 900-932: a value for a field typed as a projection type
\* is replaced by field_type.from_domain(value, context=context), one typed
\* as a list of a projection type by the list of the elements' projections
maybe_build_nested_viewdto(parent_cls, f, value, nested) ==
    LET hints == get_type_hints(parent_cls)
        build(v) == IF v \in DOMAIN nested[f] THEN nested[f][v]
                    ELSE [err |-> "-", instance |-> v]
    IN  IF value = NoneV \/ f \notin DOMAIN hints THEN [err |-> "-", value |-> value]
        ELSE IF hints[f].is_list
        THEN IF value.t # "list" THEN [err |-> "-", value |-> value]
             ELSE LET rs == [k \in DOMAIN value.items |-> build(value.items[k])]
                      bad == {k \in DOMAIN rs : rs[k].err # "-"}
                  IN  IF bad # {}
                      THEN [err |-> rs[CHOOSE k \in bad : \A j \in bad : k <= j].err,
                            value |-> value]
                      ELSE [err |-> "-",
                            value |-> List([k \in DOMAIN rs |-> rs[k].instance])]
        ELSE LET r == build(value)
             IN  [err |-> r.err, value |-> IF r.err = "-" THEN r.instance ELSE value]

\* A variant that stores None for a field whose reference did not resolve.
extract_mapped_null(c, f, entity, ctx, mapped_data, nested) ==
    LET ref == c.field_mappings[f]
        fd == c.potato_fields[f]
        value == resolve_field_value(entity, ref.namespace, ref.path, c.is_aggregate_view)
        called == value # SENTINEL /\ fd.transform # "-"
        e == IF called THEN raises(fd.transform, value) ELSE "-"
        v2 == IF called THEN apply_transform(fd, value, ctx) ELSE value
        built == IF value # SENTINEL /\ e = "-"
                  THEN maybe_build_nested_viewdto(c, f, v2, nested)
                  ELSE [err |-> e, value |-> v2]
    IN  [err |-> built.err,
         calls |-> IF called THEN <<fd.transform>> ELSE <<>>,
         data |-> IF built.err # "-" THEN mapped_data
                  ELSE update(mapped_data,
                              [k \in {f} |-> IF value # SENTINEL THEN built.value
                                             ELSE NoneV])]

\* lines 659-668 / 705-714: one explicitly mapped field.  The transform is
\* called on a resolved value only; what it raises is not caught.
extract_mapped(c, f, entity, ctx, mapped_data, nested) ==
    LET ref == c.field_mappings[f]
        fd == c.potato_fields[f]
        value == resolve_field_value(entity, ref.namespace, ref.path, c.is_aggregate_view)
        called == value # SENTINEL /\ fd.transform # "-"
        e == IF called THEN raises(fd.transform, value) ELSE "-"
        v2 == IF called THEN apply_transform(fd, value, ctx) ELSE value
        built == IF value # SENTINEL /\ e = "-"
                  THEN maybe_build_nested_viewdto(c, f, v2, nested)
                  ELSE [err |-> e, value |-> v2]
    IN  [err |-> built.err,
         calls |-> IF called THEN <<fd.transform>> ELSE <<>>,
         data |-> IF value # SENTINEL /\ built.err = "-"
                  THEN update(mapped_data, [k \in {f} |-> built.value])
                  ELSE mapped_data]

\* lines 671-690 / 717-733: the fields matched by name, in the order of
\* model_fields; the first exception of a nested build propagates
extract_auto(c, entity, ctx, mapped_data, nested) ==
    LET auto == {n \in Range(c.model_fields) :
                   n \notin DOMAIN mapped_data /\ hasattr(entity, n)}
        r == [n \in auto |-> maybe_build_nested_viewdto(c, n, getattr(entity, n), nested)]
        bad == {k \in DOMAIN c.model_fields :
                  c.model_fields[k] \in auto /\ r[c.model_fields[k]].err # "-"}
    IN  IF bad # {}
        THEN [err |-> r[c.model_fields[CHOOSE k \in bad : \A j \in bad : k <= j]].err,
              data |-> mapped_data]
        ELSE [err |-> "-", data |-> update(mapped_data, [n \in auto |-> r[n].value])]

\* lines 742-766 / 775-799: one computed-field function, written on the
\* instance with object.__setattr__
inject_computed(inst, name, val) ==
    IF inst.t = "view"
    THEN [inst EXCEPT !.computed = update(@, [k \in {name} |-> val])]
    ELSE inst

\* A variant that catches what the computed-field function raises and
\* leaves the attribute unset.
run_computed_swallow(c, name, inst, entity, ctx) ==
    LET fn == c.computed_fns[name]
    IN  [err |-> "-", fn |-> fn,
         instance |-> IF raises(name, entity) # "-" THEN inst
                      ELSE inject_computed(inst, name,
                                           computed_method(fn, inst, entity, ctx))]

\* lines 742-766 / 775-799: val = member(instance, **kwargs) for one entry of
\* the computed-field table; what the function raises is not caught.
computed_called(fn, name, inst, sig, kwargs, ctx) ==
    IF missing_argument(sig, kwargs)
    THEN [err |-> "TypeError", fn |-> fn, instance |-> inst]
    ELSE IF name = "received"
    THEN [err |-> "-", fn |-> fn,
          instance |-> inject_computed(inst, name, Received(kwargs))]
    ELSE IF raises(name, entity_argument(kwargs)) # "-"
    THEN [err |-> raises(name, entity_argument(kwargs)), fn |-> fn, instance |-> inst]
    ELSE [err |-> "-", fn |-> fn,
          instance |-> inject_computed(inst, name,
                                       computed_method(fn, inst, entity_argument(kwargs), ctx))]

computed_signature(fn, name) == signature(IF fn = "AdminView.display" THEN fn ELSE name)

run_computed(c, name, inst, entity, ctx) ==
    computed_called(c.computed_fns[name], name, inst,
                    computed_signature(c.computed_fns[name], name),
                    computed_kwargs(computed_signature(c.computed_fns[name], name),
                                    entity, ctx),
                    ctx)

\* lines 500-549: one statement of a from_domain call, run on the locals t
\* of the call
run_step(c, entity, ctx, t, op, nested) ==
    CASE op.k = "validate" ->
           LET r == validate_context(c, ctx)
           IN  IF r = "ok" THEN t ELSE [t EXCEPT !.err = r]
      [] op.k = "before" ->
           LET r == call_before_hook(op.n, entity, ctx)
           IN  IF r.err # "-" THEN [t EXCEPT !.err = r.err]
               ELSE [t EXCEPT !.extra_data = merge_hook_result(@, r.result)]
      [] op.k = "map" ->
           LET r == extract_mapped(c, op.n, entity, ctx, t.mapped_data, nested)
           IN  [t EXCEPT !.err = r.err, !.mapped_data = r.data]
      [] op.k = "automap" ->
           LET r == extract_auto(c, entity, ctx, t.mapped_data, nested)
           IN  [t EXCEPT !.err = r.err, !.mapped_data = r.data]
      [] op.k = "hidden" ->
           LET h == compute_hidden_fields(c, ctx)
           IN  IF h.err # "ok" THEN [t EXCEPT !.err = h.err]
               ELSE [t EXCEPT !.mapped_data = merge_extra_data(@, t.extra_data),
                              !.hidden = h.hidden]
      [] op.k = "construct" ->
           LET r == construct(c, t.mapped_data)
           IN  IF r.err # "ok" THEN [t EXCEPT !.err = r.err]
               ELSE [t EXCEPT !.instance = [r.instance EXCEPT !.hidden = t.hidden]]
      [] op.k = "computed" ->
           LET r == run_computed(c, op.n, t.instance, entity, ctx)
           IN  [t EXCEPT !.err = r.err, !.instance = r.instance]
      [] op.k = "after" ->
           [t EXCEPT !.err = call_after_hook(op.n, t.instance, entity, ctx)]
      [] OTHER -> t

\* The locals of a from_domain call at its start.
Locals ==
    [err |-> "-", extra_data |-> EmptyMap, mapped_data |-> EmptyMap,
     hidden |-> {}, instance |-> NoInstance]

\* lines 500-549: the statements of a from_domain call in order, up to the
\* first that raises; what the call returns or raises
run(c, entity, ctx, nested) ==
    LET ops == from_domain(c)
        at[k \in 0..Len(ops)] ==
            IF k = 0 THEN Locals
            ELSE CHOOSE t2 \in {IF t.err # "-" THEN t
                                ELSE run_step(c, entity, ctx, t, ops[k], nested) :
                                t \in {at[k - 1]}} : TRUE
        end == at[Len(ops)]
    IN  [err |-> end.err, instance |-> IF end.err = "-" THEN end.instance ELSE NoInstance]

\* lines 890 and 895: field_type.from_domain(v, context=context) for every
\* field of c typed as a projection type and every value it can be built
\* from.  The projection types nested in the model have no projection-typed
\* fields of their own.
nested_calls(c, entity, ctx) ==
    [f \in DOMAIN get_type_hints(c) |->
       [v \in NestedSources(entity) |-> run(get_type_hints(c)[f].inner, v, ctx, EmptyMap)]]

\* lines 500-549: one from_domain call, start to end
from_domain_call(c, entity, ctx) == run(c, entity, ctx, nested_calls(c, entity, ctx))

\* Whether a build by the projection type c calls a function of the
\* application: a hook, a transform or a computed-field function.  Any of
\* them may be a coroutine function, whose result afrom_domain awaits.
InvokesFunction(c) ==
    \/ c.before_build_hooks # <<>> \/ c.after_build_hooks # <<>>
    \/ c.computed_methods # <<>>
    \/ \E f \in DOMAIN c.potato_fields : c.potato_fields[f].transform # "-"

\* A variant in which a single nested projection is gathered as well.
nested_awaits_every_build(parent_cls, f, value) ==
    value # NoneV /\ f \in DOMAIN get_type_hints(parent_cls)

\* lines 900-932, whether _amaybe_build_nested_viewdto gives up control:
\* awaiting asyncio.gather of at least one nested build does (lines 921-925),
\* awaiting one nested afrom_domain (line 930) only where that build does.
nested_awaits(parent_cls, f, value) ==
    LET hints == get_type_hints(parent_cls)
    IN  IF value = NoneV \/ f \notin DOMAIN hints THEN FALSE
        ELSE IF hints[f].is_list THEN value.t = "list" /\ value.items # <<>>
        ELSE InvokesFunction(hints[f].inner)

\* The steps at which afrom_domain may give up control, for the entity and
\* the values collected so far: a hook, a field's transform, a
\* computed-field function, the building of nested projections.
Awaits(c, op, entity, ctx, mapped_data) ==
    \/ op.k \in {"before", "computed", "after"}
    \/ /\ op.k = "map"
       /\ LET ref == c.field_mappings[op.n]
              value == resolve_field_value(entity, ref.namespace, ref.path,
                                           c.is_aggregate_view)
          IN  /\ value # SENTINEL
              /\ \/ c.potato_fields[op.n].transform # "-"
                 \/ nested_awaits(c, op.n,
                                  apply_transform(c.potato_fields[op.n], value, ctx))
    \/ /\ op.k = "automap"
       /\ \E n \in Range(c.model_fields) :
            /\ n \notin DOMAIN mapped_data
            /\ hasattr(entity, n)
            /\ nested_awaits(c, n, getattr(entity, n))

NewTask ==
    [pc |-> 1, st |-> "run", err |-> "-",
     extra_data |-> EmptyMap, mapped_data |-> EmptyMap, hidden |-> {},
     instance |-> NoInstance, trace |-> <<>>, seen |-> NoInstance, calls |-> <<>>]

NoOut == [t |-> "pending"]

Items == DOMAIN tasks
CurOp(i) == from_domain(cls)[tasks[i].pc]

\* from_domains runs the items one after the other and stops at the first
\* exception; afrom_domains starts them all.
Schedulable(i) ==
    IF mode = "sync"
    THEN out = NoOut /\ \A j \in Items : j < i => tasks[j].st = "done"
    ELSE TRUE

CanStep(i, kind) ==
    /\ i \in Items
    /\ tasks[i].st = "run"
    /\ running = i \/ (running = 0 /\ Schedulable(i))
    /\ CurOp(i).k = kind

Logged(i) == Append(tasks[i].trace, CurOp(i))

Advance(i, t2) ==
    /\ tasks' = [tasks EXCEPT ![i] = t2]
    /\ doneOrder' = IF t2.st = "done" THEN Append(doneOrder, i) ELSE doneOrder
    /\ IF t2.st # "run" THEN running' = 0
       ELSE IF mode = "async" /\ Awaits(cls, CurOp(i), entities[i], context, tasks[i].mapped_data)
            THEN running' \in {i, 0}
       ELSE running' = i
    /\ UNCHANGED <<mode, cls, entities, context, out>>
    /\ UNCHANGED <<declVars, buildVars>>

Raise(i, e) ==
    [tasks[i] EXCEPT !.st = "raised", !.err = e, !.trace = Logged(i)]

\* line 512 / 577
Validate(i) ==
    /\ CanStep(i, "validate")
    /\ LET r == validate_context(cls, context)
       IN  Advance(i, IF r = "ok"
                      THEN [tasks[i] EXCEPT !.pc = @ + 1, !.trace = Logged(i)]
                      ELSE [tasks[i] EXCEPT !.st = "raised", !.err = r])

\* lines 516-523 / 581-590: one pre-build hook
BeforeHook(i) ==
    /\ CanStep(i, "before")
    /\ LET h == CurOp(i).n
           r == call_before_hook(h, entities[i], context)
           e == r.err
           result == r.result
       IN  Advance(i, IF e # "-"
                      THEN [Raise(i, e) EXCEPT !.calls = Append(@, h)]
                      ELSE [tasks[i] EXCEPT !.pc = @ + 1, !.trace = Logged(i),
                                            !.calls = Append(@, h),
                                            !.extra_data = merge_hook_result(@, result)])

\* A variant in which the calls on a type fill one shared dict.
local_mapped_data_shared(ts, i) ==
    IF i > 1 THEN update(ts[i - 1].mapped_data, ts[i].mapped_data) ELSE ts[i].mapped_data

\* line 653 / 699: mapped_data: dict[str, Any] = {} is a local of the call
local_mapped_data(ts, i) == ts[i].mapped_data

ExtractMapped(i) ==
    /\ CanStep(i, "map")
    /\ \E nested \in {nested_calls(cls, entities[i], context)} :
         \E r \in {extract_mapped(cls, CurOp(i).n, entities[i], context,
                                  local_mapped_data(tasks, i), nested)} :
           Advance(i, IF r.err # "-"
                      THEN [Raise(i, r.err) EXCEPT !.calls = @ \o r.calls]
                      ELSE [tasks[i] EXCEPT !.pc = @ + 1, !.trace = Logged(i),
                                            !.calls = @ \o r.calls,
                                            !.mapped_data = r.data])

AutoMap(i) ==
    /\ CanStep(i, "automap")
    /\ \E nested \in {nested_calls(cls, entities[i], context)} :
         \E r \in {extract_auto(cls, entities[i], context,
                                local_mapped_data(tasks, i), nested)} :
           Advance(i, IF r.err # "-" THEN Raise(i, r.err)
                      ELSE [tasks[i] EXCEPT !.pc = @ + 1, !.trace = Logged(i),
                                            !.mapped_data = r.data])

\* lines 527-530 / 594-597
ComputeHidden(i) ==
    /\ CanStep(i, "hidden")
    /\ LET h == compute_hidden_fields(cls, context)
       IN  Advance(i, IF h.err = "ok"
                      THEN [tasks[i] EXCEPT !.pc = @ + 1, !.trace = Logged(i),
                              !.mapped_data = merge_extra_data(@, tasks[i].extra_data),
                              !.hidden = h.hidden]
                      ELSE Raise(i, h.err))

\* A variant in which only from_domain stores the hidden set.
store_hidden_fields_sync_only(m, hidden) == IF m = "async" THEN {} ELSE hidden

\* lines 536 / 603: object.__setattr__(instance, "__hidden_fields__", hidden_fields)
store_hidden_fields(m, hidden) == hidden

\* lines 533-536 / 600-603
Construct(i) ==
    /\ CanStep(i, "construct")
    /\ LET r == construct(cls, tasks[i].mapped_data)
       IN  Advance(i, IF r.err = "ok"
                      THEN [tasks[i] EXCEPT !.pc = @ + 1, !.trace = Logged(i),
                              !.instance = [r.instance EXCEPT !.hidden =
                                              store_hidden_fields(mode, tasks[i].hidden)]]
                      ELSE Raise(i, r.err))

Computed(i) ==
    /\ CanStep(i, "computed")
    /\ LET name == CurOp(i).n
           r == run_computed(cls, name, tasks[i].instance, entities[i], context)
           t2 == [tasks[i] EXCEPT
                    !.trace = Append(@, [k |-> IF tasks[i].instance.t = "view"
                                               THEN "computed" ELSE "computed-unbound",
                                         n |-> name]),
                    !.calls = Append(@, r.fn)]
       IN  Advance(i, IF r.err # "-"
                      THEN [t2 EXCEPT !.st = "raised", !.err = r.err]
                      ELSE [t2 EXCEPT !.pc = @ + 1, !.instance = r.instance])

\* lines 542-547 / 609-615: one post-build hook; it is handed the instance
AfterHook(i) ==
    /\ CanStep(i, "after")
    /\ LET h == CurOp(i).n
           e == call_after_hook(h, tasks[i].instance, entities[i], context)
           t2 == [tasks[i] EXCEPT !.trace = Logged(i), !.calls = Append(@, h),
                                  !.seen = tasks[i].instance]
       IN  Advance(i, IF e # "-"
                      THEN [t2 EXCEPT !.st = "raised", !.err = e]
                      ELSE [t2 EXCEPT !.pc = @ + 1])

\* line 549 / 617
Return(i) ==
    /\ CanStep(i, "return")
    /\ Advance(i, [tasks[i] EXCEPT !.st = "done", !.trace = Logged(i)])

(***************************************************************************)
(* The batch calls                                                         *)
(***************************************************************************)
\* [cls.from_domain(e, context=context) for e in entities]
from_domains(ts, order) == [k \in 1..Len(order) |-> ts[order[k]].instance]

\* A variant that collects the results as they complete.
afrom_domains_as_completed(ts, order) == [k \in 1..Len(order) |-> ts[order[k]].instance]

\* list(await asyncio.gather(*(cls.afrom_domain(e, ...) for e in entities)))
afrom_domains(ts, order) == [i \in 1..Len(ts) |-> ts[i].instance]

ReturnBatch ==
    /\ out = NoOut
    /\ running = 0
    /\ \A i \in Items : tasks[i].st = "done"
    /\ out' = [t |-> "list",
               items |-> IF mode = "sync" THEN from_domains(tasks, doneOrder)
                         ELSE afrom_domains(tasks, doneOrder)]
    /\ UNCHANGED <<mode, cls, entities, context, tasks, running, doneOrder>>
    /\ UNCHANGED <<declVars, buildVars>>

RaiseBatch ==
    /\ out = NoOut
    /\ running = 0
    /\ \E i \in Items :
         /\ tasks[i].st = "raised"
         /\ out' = [t |-> "raised", err |-> tasks[i].err]
    /\ UNCHANGED <<mode, cls, entities, context, tasks, running, doneOrder>>
    /\ UNCHANGED <<declVars, buildVars>>

Idle == [t |-> "idle"]

InitOther ==
    /\ declared = <<>>
    /\ lastDecl = Idle
    /\ heap = <<>>
    /\ bq = Idle
    /\ br = Idle

Batches(d) == UNION {[1..n -> InstancesOf(d)] : n \in 0..MaxItems}

Init ==
    /\ mode \in {"sync", "async"}
    /\ cls \in {UserView(a) : a \in ContextArgs} \cup {OrderView}
    /\ entities \in Batches(cls.domain_cls)
    /\ context \in Contexts
    /\ tasks = [i \in DOMAIN entities |-> NewTask]
    /\ running = 0
    /\ doneOrder = <<>>
    /\ out = NoOut
    /\ InitOther

Next ==
    \/ \E i \in 1..MaxItems : Validate(i)
    \/ \E i \in 1..MaxItems : BeforeHook(i)
    \/ \E i \in 1..MaxItems : ExtractMapped(i)
    \/ \E i \in 1..MaxItems : AutoMap(i)
    \/ \E i \in 1..MaxItems : ComputeHidden(i)
    \/ \E i \in 1..MaxItems : Construct(i)
    \/ \E i \in 1..MaxItems : Computed(i)
    \/ \E i \in 1..MaxItems : AfterHook(i)
    \/ \E i \in 1..MaxItems : Return(i)
    \/ ReturnBatch
    \/ RaiseBatch

Spec == Init /\ [][Next]_vars

(***************************************************************************)
(* The same pipeline run on projection types whose functions raise         *)
(***************************************************************************)
\* class GuardedView(ViewDTO[User]):
\*     id: str
\*     login: str = Field(source=User.username, transform=<strict or upper>)
\*     @computed def risky / def display;  @before_build def guard / enrich
\*     @after_build def validate_username / check
\* k names the one function of the type that raises.
GuardedView(k) ==
    ViewDTOMeta(ClassStmt("GuardedView", class_getitem("User", {}), <<>>,
        <<"id", "login">>,
        [login |-> Field(field_proxy("User", "username"),
                         IF k = "transform" THEN "strict" ELSE "upper", "-")],
        <<"login">>,
        EmptyMap,
        IF k = "computed" THEN <<"risky", "display">> ELSE <<"display">>,
        IF k = "before" THEN <<"guard", "enrich">> ELSE <<"enrich">>,
        IF k = "after" THEN <<"validate_username", "check">> ELSE <<"check">>)).cls

\* Customer instances, with and without an address.
Customer(id, address) == Obj("Customer", [id |-> Str(id), address |-> address])
Customers == {Customer("1", Address("Paris")), Customer("3", NoneV)}

\* An Order with no seller attribute: Order.model_construct(buyer=alice, ...)
OrderNoSeller ==
    Obj("Order", [buyer |-> User("1", "alice", "a@x.com", "Paris"),
                  amount |-> Str("100"), audit_key |-> Str("k")])

\* class CityView(ViewDTO[Customer]):
\*     id: str
\*     <f>: str = Field(source=Customer.address.city, transform=upper)
\* with f one of city, address; has_default adds the default "unknown".
CityView(f, has_default) ==
    ViewDTOMeta(ClassStmt("CityView", class_getitem("Customer", {}), <<>>,
        <<"id", f>>,
        [n \in {f} |-> Field(FieldRef("Customer", NoNamespace, <<"address", "city">>),
                             "upper", "-")],
        <<f>>,
        IF has_default THEN [n \in {f} |-> Str("unknown")] ELSE EmptyMap,
        <<>>, <<>>, <<>>)).cls

\* Team instances, with no, one and two members.
Team(lead, members) ==
    Obj("Team", [name |-> Str("t"), lead |-> lead, members |-> List(members)])

Teams ==
    LET a == User("1", "alice", "a@x.com", "Paris")
        b == User("2", "bob", "b@x.com", "Rome")
    IN  {Team(a, <<>>), Team(b, <<a>>), Team(a, <<b, a>>)}

\* class TeamView(ViewDTO[Team]):
\*     name: str
\*     captain: UserView = Field(source=Team.lead)
\*     lead: UserView
\*     members: list[UserView]
TeamView ==
    [ViewDTOMeta(ClassStmt("TeamView", class_getitem("Team", {}), <<>>,
        <<"name", "captain", "lead", "members">>,
        [captain |-> Field(field_proxy("Team", "lead"), "-", "-")],
        <<"captain">>,
        EmptyMap, <<>>, <<>>, <<>>)).cls
     EXCEPT !.nested_hints =
        [captain |-> [is_list |-> FALSE, inner |-> UserView({})],
         lead    |-> [is_list |-> FALSE, inner |-> UserView({})],
         members |-> [is_list |-> TRUE,  inner |-> UserView({})]]]

\* class LoginView(ViewDTO[User]):
\*     id: str
\*     login: str = Field(source=User.username)
\*     email: str
LoginView ==
    ViewDTOMeta(ClassStmt("LoginView", class_getitem("User", {}), <<>>,
        <<"id", "login", "email">>,
        [login |-> Field(field_proxy("User", "username"), "-", "-")],
        <<"login">>,
        EmptyMap, <<>>, <<>>, <<>>)).cls

\* The calls made: a projection type, the entities it is handed, the contexts.
Scenario(c, instances, contexts) ==
    [cls |-> c, instances |-> instances, contexts |-> contexts]

Scenarios ==
    {Scenario(GuardedView(k), Users, {NoneV}) :
        k \in {"before", "transform", "computed", "after"}}
    \cup {Scenario(CityView(f, d), Customers, {NoneV}) :
            f \in {"city", "address"}, d \in BOOLEAN}
    \cup {Scenario(OrderView, {Order(b, b) : b \in Users} \cup {OrderNoSeller}, {NoneV})}
    \cup {Scenario(c, Users, Contexts \ {Str("wrong")}) : c \in {UserView({})}}
    \cup {Scenario(TeamView, Teams, Contexts \ {Str("wrong")})}
    \cup {Scenario(LoginView, Users, {NoneV})}

InitEx ==
    /\ mode \in {"sync", "async"}
    /\ \E sc \in Scenarios :
         /\ cls = sc.cls
         /\ entities \in UNION {[1..n -> sc.instances] : n \in 0..MaxItems}
         /\ context \in sc.contexts
    /\ tasks = [i \in DOMAIN entities |-> NewTask]
    /\ running = 0
    /\ doneOrder = <<>>
    /\ out = NoOut
    /\ InitOther

SpecEx == InitEx /\ [][Next]_vars

(***************************************************************************)
(* Declaring view projection types                                         *)
(***************************************************************************)
\* The field declarations a class body is drawn from.
FieldDecls ==
    << [name |-> "id",            field |-> Field(NoSource, "-", "-")],
       [name |-> "password_hash", field |-> Field(NoSource, "-", "-")],
       [name |-> "audit_key",     field |-> Field(NoSource, "-", "-")],
       [name |-> "secret",
        field |-> Field(field_proxy("User", "password_hash"), "-", "-")],
       [name |-> "buyer_secret",
        field |-> Field(domain_field_accessor("Order", "buyer", <<"password_hash">>), "-", "-")],
       [name |-> "buyer_id",
        field |-> Field(domain_field_accessor("Order", "buyer", <<"id">>), "-", "-")] >>

Bodies == {b \in SUBSET (1..Len(FieldDecls)) : Cardinality(b) <= MaxFields}

Picked(b) == SelectSeq([i \in 1..Len(FieldDecls) |-> i], LAMBDA i : i \in b)

\* class <name>(<base>): the chosen field declarations, in order
ViewStmt(name, base, b) ==
    LET idx == Picked(b)
        names == [k \in 1..Len(idx) |-> FieldDecls[idx[k]].name]
        fielded == SelectSeq(idx, LAMBDA i : FieldDecls[i].field.source # NoSource)
        porder == [k \in 1..Len(fielded) |-> FieldDecls[fielded[k]].name]
    IN  ClassStmt(name, base, <<>>, names,
                  [n \in Range(porder) |->
                     FieldDecls[CHOOSE i \in Range(fielded) : FieldDecls[i].name = n].field],
                  porder, EmptyMap, <<>>, <<>>, <<>>)

Declare(stmt, bound, child) ==
    LET r == ViewDTOMeta(stmt)
    IN  /\ lastDecl' = [t |-> "decl", status |-> r.err, cls |-> r.cls,
                        bound |-> bound, child |-> child, stmt |-> stmt,
                        blame |-> r.blame]
        /\ declared' =
             LET after == [k \in DOMAIN declared |->
                             IF declared[k] = stmt.base THEN r.base ELSE declared[k]]
             IN  IF r.err = "ok" THEN Append(after, r.cls) ELSE after
        /\ UNCHANGED <<pipeVars, buildVars>>

\* class V(ViewDTO[D]): ...
DeclareView ==
    /\ declared = <<>>
    /\ \E d \in {"User", "Order"}, b \in Bodies :
         Declare(ViewStmt("V", class_getitem(d, {}), b), d, FALSE)

\* class W(V): ... for the latest declared type V
DeclareChild ==
    /\ declared # <<>>
    /\ Len(declared) < MaxDepth
    /\ \E b \in Bodies :
         LET parent == declared[Len(declared)]
         IN  Declare(ViewStmt("W", parent, b), parent.domain_cls, TRUE)

InitPipeIdle ==
    /\ mode = "sync"
    /\ cls = ViewDTO
    /\ entities = <<>>
    /\ context = NoneV
    /\ tasks = <<>>
    /\ running = 0
    /\ doneOrder = <<>>
    /\ out = NoOut

InitDecl ==
    /\ InitPipeIdle
    /\ InitOther

NextDecl == DeclareView \/ DeclareChild

SpecDecl == InitDecl /\ [][NextDecl]_vars

(***************************************************************************)
(* Calls on a projection type that extends another                         *)
(***************************************************************************)
\* class AdminView(UserView):
\*     login: str = Field(source=User.email)            (v.login)
\*     email: str = Field(visible=lambda ctx: True)     (v.email)
\*     mail: str = Field(source=User.email)             (v.mail)
\*     @computed def display(self, user: User)          (v.display)
\* The child redeclares nothing, one thing, or everything.
AdminVariants ==
    {v \in [login : BOOLEAN, email : BOOLEAN, mail : BOOLEAN, display : BOOLEAN] :
       Cardinality({k \in DOMAIN v : v[k]}) \in {0, 1, 4}}

AdminStmt(base, v) ==
    LET names == (IF v.login THEN <<"login">> ELSE <<>>)
                 \o (IF v.email THEN <<"email">> ELSE <<>>)
                 \o (IF v.mail THEN <<"mail">> ELSE <<>>)
        fields == [login |-> Field(field_proxy("User", "email"), "-", "-"),
                   email |-> Field(NoSource, "-", "always"),
                   mail  |-> Field(field_proxy("User", "email"), "-", "-")]
    IN  ClassStmt("AdminView", base, <<>>, names,
                  [n \in Range(names) |-> fields[n]], names, EmptyMap,
                  IF v.display THEN <<"display">> ELSE <<>>, <<>>, <<>>)

\* The parent and the child are declared, then the child is called.
InitInherit ==
    /\ mode \in {"sync", "async"}
    /\ \E v \in AdminVariants :
         LET stmt == AdminStmt(UserView({}), v)
             r == ViewDTOMeta(stmt)
         IN  /\ r.err = "ok"
             /\ cls = r.cls
             /\ declared = <<stmt.base, r.cls>>
             /\ lastDecl = [t |-> "decl", status |-> r.err, cls |-> r.cls,
                            bound |-> r.cls.domain_cls, child |-> TRUE, stmt |-> stmt,
                            blame |-> r.blame]
    /\ entities \in Batches("User")
    /\ context \in {Permissions(FALSE), Str("wrong")}
    /\ tasks = [i \in DOMAIN entities |-> NewTask]
    /\ running = 0
    /\ doneOrder = <<>>
    /\ out = NoOut
    /\ heap = <<>>
    /\ bq = Idle
    /\ br = Idle

SpecInherit == InitInherit /\ [][Next]_vars

(***************************************************************************)
(* Calls, dumps and a child declaration on declared projection types       *)
(***************************************************************************)
\* The child redeclares nothing or everything.
RegistryVariants ==
    {w \in AdminVariants : w.login = w.email /\ w.email = w.mail /\ w.mail = w.display}

\* The module has declared UserView and perhaps AdminView(UserView), and a
\* batch call on one of them is under way.
InitRegistry ==
    /\ mode \in {"sync", "async"}
    /\ \E v \in RegistryVariants :
         LET parent == UserView({})
             child == ViewDTOMeta(AdminStmt(parent, v)).cls
         IN  /\ declared \in {<<parent>>, <<parent, child>>}
             /\ cls \in Range(declared)
    /\ lastDecl = Idle
    /\ entities \in Batches("User")
    /\ context \in {Permissions(FALSE), Str("wrong")}
    /\ tasks = [i \in DOMAIN entities |-> NewTask]
    /\ running = 0
    /\ doneOrder = <<>>
    /\ out = NoOut
    /\ heap = <<>>
    /\ bq = Idle
    /\ br = Idle

\* class AdminView(UserView): ... is run while UserView is in use
DeclareAdmin ==
    /\ Len(declared) = 1
    /\ \E v \in RegistryVariants :
         Declare(AdminStmt(declared[1], v), declared[1].domain_cls, TRUE)

\* [v.model_dump() for v in views] and [v.model_dump_json() for v in views]
DumpOut ==
    /\ out.t = "list"
    /\ out' = [t |-> "dumped",
               items |-> [k \in DOMAIN out.items |->
                            [dict |-> model_dump(cls, out.items[k]),
                             json |-> model_dump_json(cls, out.items[k])]]]
    /\ UNCHANGED <<mode, cls, entities, context, tasks, running, doneOrder>>
    /\ UNCHANGED <<declVars, buildVars>>

NextRegistry == Next \/ DeclareAdmin \/ DumpOut

SpecRegistry == InitRegistry /\ [][NextRegistry]_vars

(***************************************************************************)
(* Declaring view projections whose mappings name other types or paths     *)
(***************************************************************************)
\* The mapped field declarations a class body is drawn from: references
\* made by attribute access and by FieldProxy(cls, name, path=[...]).
RefDecls ==
    << [name |-> "login",    ref |-> field_proxy("User", "username")],
       [name |-> "city",     ref |-> FieldRef("User", NoNamespace, <<"address", "city">>)],
       [name |-> "town",     ref |-> field_proxy("Address", "city")],
       [name |-> "buyer_id", ref |-> domain_field_accessor("Order", "buyer", <<"id">>)],
       [name |-> "total",    ref |-> field_proxy("Order", "amount")],
       [name |-> "cust",     ref |-> field_proxy("Customer", "id")],
       [name |-> "missing",  ref |-> FieldRef("User", NoNamespace, <<"nonexistent">>)],
       [name |-> "street",   ref |-> FieldRef("User", NoNamespace, <<"address", "street">>)],
       [name |-> "after",    ref |-> FieldRef("User", NoNamespace, <<"username", "foo">>)],
       [name |-> "zip",      ref |-> FieldRef("Customer", NoNamespace, <<"address", "zip">>)] >>

RefBodies ==
    {b \in SUBSET (1..Len(RefDecls)) : Cardinality(b) >= 1 /\ Cardinality(b) <= MaxFields}

\* class <name>(<base>): the chosen mapped fields, in order
MappedStmt(name, base, b) ==
    LET idx == SelectSeq([i \in 1..Len(RefDecls) |-> i], LAMBDA i : i \in b)
        names == [k \in 1..Len(idx) |-> RefDecls[idx[k]].name]
    IN  ClassStmt(name, base, <<>>, names,
                  [n \in Range(names) |->
                     Field(RefDecls[CHOOSE i \in b : RefDecls[i].name = n].ref, "-", "-")],
                  names, EmptyMap, <<>>, <<>>, <<>>)

\* class V(ViewDTO[D]): ..., run at import
DeclareMapped ==
    /\ declared = <<>>
    /\ \E d \in {"User", "Order", "Customer"}, b \in RefBodies :
         Declare(MappedStmt("V", class_getitem(d, {}), b), d, FALSE)

InitRef ==
    /\ InitPipeIdle
    /\ InitOther

SpecRef == InitRef /\ [][DeclareMapped]_vars

(***************************************************************************)
(* The reverse mapping engine: build projections                           *)
(***************************************************************************)
MaxHeap == 4

\* FieldProxy.field_name: the field the reference ends at
field_name(ref) == ref.path[Len(ref.path)]

\* class <name>(BuildDTO[<domain>], partial=<partial>): the annotated fields
\* in order, the defaults given in the body, the Field(source=...) entries
BuildStmt(name, domain, partial, model_fields, defaults, potato_fields) ==
    [name |-> name, domain |-> domain, partial |-> partial,
     model_fields |-> model_fields, defaults |-> defaults,
     potato_fields |-> potato_fields]

\* partial=True: every field becomes optional with default None
apply_partial_to_model(model_fields) == [f \in Range(model_fields) |-> NoneV]

BuildDTOMeta(stmt) ==
    LET sourced == {f \in DOMAIN stmt.potato_fields :
                      stmt.potato_fields[f].source # NoSource}
        deep == \E f \in sourced : Len(stmt.potato_fields[f].source.path) > 1
        build_mappings == [f \in sourced |-> field_name(stmt.potato_fields[f].source)]
        domain_fields == Range(Schemas[stmt.domain].model_fields)
        \* _validate_build_field_mappings returns early when the entity type
        \* has no fields
        unknown == /\ domain_fields # {}
                   /\ \E f \in sourced : build_mappings[f] \notin domain_fields
    IN  [err |-> IF deep \/ unknown THEN "TypeError" ELSE "ok",
         cls |-> [name |-> stmt.name,
                  domain_cls |-> stmt.domain,
                  partial |-> stmt.partial,
                  model_fields |-> stmt.model_fields,
                  defaults |-> IF stmt.partial
                               THEN apply_partial_to_model(stmt.model_fields)
                               ELSE stmt.defaults,
                  optional |-> IF stmt.partial THEN Range(stmt.model_fields) ELSE {},
                  build_field_mappings |-> build_mappings]]

\* class UserInput(BuildDTO[User]):
\*     login: str = Field(source=User.username)
\*     email: str = "d@x.com"
\*     note: str = ""
UserInput(partial) ==
    BuildDTOMeta(BuildStmt("UserInput", "User", partial,
        <<"login", "email", "note">>,
        [email |-> Str("d@x.com"), note |-> Str("")],
        [login |-> Field(field_proxy("User", "username"), "-", "-")])).cls

\* class UserAlias(BuildDTO[User]):
\*     username: str
\*     login: str = Field(source=User.username)
\*     email: str
UserAlias(partial) ==
    BuildDTOMeta(BuildStmt("UserAlias", "User", partial,
        <<"username", "login", "email">>,
        EmptyMap,
        [login |-> Field(field_proxy("User", "username"), "-", "-")])).cls

BuildClasses == {UserInput(p) : p \in BOOLEAN} \cup {UserAlias(p) : p \in BOOLEAN}

\* The values a caller passes for each build projection field.
InputValues ==
    [login |-> {Str("lx"), NoneV}, username |-> {Str("ux")},
     email |-> {Str("ex")}, note |-> {Str("nx")}]

Kwargs(c) ==
    UNION {{kw \in [S -> UNION Range(InputValues)] : \A f \in S : kw[f] \in InputValues[f]}
             : S \in SUBSET Range(c.model_fields)}

\* The extra fields a caller passes to to_domain.
SystemFields ==
    [id |-> Str("9"), password_hash |-> Str("h9"), address |-> Address("Oslo")]

Extras ==
    {EmptyMap, SystemFields,
     update(SystemFields, [username |-> Str("kx")]),
     update(SystemFields, [nickname |-> Str("nn")])}

\* BuildDTO(**kwargs): pydantic validates the given values, fills the
\* defaults and records which fields were given.
new_dto(c, kwargs) ==
    LET fields == Range(c.model_fields)
        bad(f) == IF f \in DOMAIN kwargs
                  THEN ~(\/ kwargs[f].t = "str"
                         \/ kwargs[f].t = "none" /\ f \in c.optional)
                  ELSE f \notin DOMAIN c.defaults
    IN  IF \E f \in fields : bad(f)
        THEN [err |-> "ValidationError", inst |-> NoneV]
        ELSE [err |-> "ok",
              inst |-> [t |-> "dto", cls |-> c,
                        f |-> [g \in fields |->
                                 IF g \in DOMAIN kwargs THEN kwargs[g] ELSE c.defaults[g]],
                        fields_set |-> DOMAIN kwargs \cap fields]]

\* A variant of the dump that ignores exclude_unset.
dto_model_dump_all(inst, exclude_unset) ==
    [keys |-> inst.cls.model_fields, data |-> inst.f]

\* self.model_dump(exclude_unset=...): an ordered dict of the fields
dto_model_dump(inst, exclude_unset) ==
    LET keys == SelectSeq(inst.cls.model_fields,
                          LAMBDA f : ~exclude_unset \/ f \in inst.fields_set)
    IN  [keys |-> keys, data |-> [f \in Range(keys) |-> inst.f[f]]]

\* BuildDTO._remap_to_domain_names: keys are renamed in dict order, so of
\* two keys renamed to one name the later one stays
remap_to_domain_names(c, dump) ==
    LET mappings == c.build_field_mappings
        domain_key(k) == IF k \in DOMAIN mappings THEN mappings[k] ELSE k
        hits(t) == {i \in DOMAIN dump.keys : domain_key(dump.keys[i]) = t}
        last(t) == CHOOSE i \in hits(t) : \A j \in hits(t) : j <= i
    IN  IF DOMAIN mappings = {} THEN dump.data
        ELSE [t \in {domain_key(dump.keys[i]) : i \in DOMAIN dump.keys}
                |-> dump.data[dump.keys[last(t)]]]

Invalid == [t |-> "invalid"]

\* entity.model_dump(): nested entities become dicts
RECURSIVE domain_model_dump(_)
domain_model_dump(v) ==
    IF v.t = "obj"
    THEN [t |-> "dict", f |-> [k \in DOMAIN v.f |-> domain_model_dump(v.f[k])]]
    ELSE v

\* Domain(**data): every field of the schema is required and validated
\* against its type hint, a dict is validated into the nested entity, and
\* keys the schema does not have are ignored.
RECURSIVE domain_init(_, _)
domain_init(d, data) ==
    LET sch == Schemas[d]
        fields == Range(sch.model_fields)
        val(f) ==
            IF f \notin DOMAIN data THEN Invalid
            ELSE LET v == data[f]
                     h == sch.hints[f]
                 IN  IF h = "str" THEN (IF v.t = "str" THEN v ELSE Invalid)
                     ELSE IF v.t = "obj" /\ v.cls = h THEN v
                     ELSE IF v.t = "dict"
                          THEN LET r == domain_init(h, v.f)
                               IN  IF r.err = "ok" THEN r.obj ELSE Invalid
                          ELSE Invalid
    IN  IF \E f \in fields : val(f) = Invalid
        THEN [err |-> "ValidationError", obj |-> NoneV]
        ELSE [err |-> "ok", obj |-> Obj(d, [f \in fields |-> val(f)])]

\* A variant in which a value derived from the projection is kept.
overlay_keep_existing(domain_data, kwargs) == update(kwargs, domain_data)

\* domain_data.update(kwargs)
overlay(domain_data, kwargs) == update(domain_data, kwargs)

\* BuildDTO.to_domain
to_domain(self, kwargs) ==
    LET data == remap_to_domain_names(self.cls, dto_model_dump(self, FALSE))
        domain_field_names == Range(Schemas[self.cls.domain_cls].model_fields)
        domain_data == [k \in DOMAIN data \cap domain_field_names |-> data[k]]
    IN  domain_init(self.cls.domain_cls, overlay(domain_data, kwargs))

Returned(ref) == [t |-> "ret", ref |-> ref]
Raised(err) == [t |-> "raise", err |-> err]

\* A variant that writes the update into the instance it was given.
apply_to_in_place(h, b, e) ==
    LET update_data == remap_to_domain_names(h[b].cls, dto_model_dump(h[b], TRUE))
        r == domain_init(h[b].cls.domain_cls,
                         update(domain_model_dump(h[e]).f, update_data))
    IN  IF r.err = "ok"
        THEN [heap |-> [h EXCEPT ![e] = r.obj], out |-> Returned(e)]
        ELSE [heap |-> h, out |-> Raised(r.err)]

\* A variant that appends a new string to the one the entity has.
entity_data_update_appending(entity_data, update_data) ==
    [k \in DOMAIN entity_data \cup DOMAIN update_data |->
       IF k \notin DOMAIN update_data THEN entity_data[k]
       ELSE IF k \in DOMAIN entity_data /\ entity_data[k].t = "str"
               /\ update_data[k].t = "str"
            THEN Str(entity_data[k].s \o update_data[k].s)
            ELSE update_data[k]]

\* build.py line 136: entity_data.update(update_data)
entity_data_update(entity_data, update_data) == update(entity_data, update_data)

\* BuildDTO.apply_to, for the projection at b and the entity at e
apply_to(h, b, e) ==
    LET update_data == remap_to_domain_names(h[b].cls, dto_model_dump(h[b], TRUE))
        entity_data == entity_data_update(domain_model_dump(h[e]).f, update_data)
        r == domain_init(h[b].cls.domain_cls, entity_data)
    IN  IF r.err = "ok"
        THEN [heap |-> Append(h, r.obj), out |-> Returned(Len(h) + 1)]
        ELSE [heap |-> h, out |-> Raised(r.err)]

IsDto(a) == a \in DOMAIN heap /\ heap[a].t = "dto"
IsEntity(a) == a \in DOMAIN heap /\ heap[a].t = "obj"

\* The build projections a caller can construct: C(**kwargs) that validates
BuildDTOs ==
    UNION {{new_dto(c, kw).inst : kw \in {k \in Kwargs(c) : new_dto(c, k).err = "ok"}}
             : c \in BuildClasses}

\* b.to_domain(**extra)
ToDomain ==
    /\ Len(heap) < MaxHeap
    /\ \E b \in DOMAIN heap, extra \in Extras :
         /\ IsDto(b)
         /\ LET r == to_domain(heap[b], extra)
            IN  /\ bq' = [t |-> "call", op |-> "to_domain", b |-> b, extra |-> extra]
                /\ heap' = IF r.err = "ok" THEN Append(heap, r.obj) ELSE heap
                /\ br' = IF r.err = "ok" THEN Returned(Len(heap) + 1) ELSE Raised(r.err)
    /\ UNCHANGED <<pipeVars, declVars>>

\* b.apply_to(e)
ApplyTo ==
    /\ Len(heap) < MaxHeap
    /\ \E b \in DOMAIN heap, e \in DOMAIN heap :
         /\ IsDto(b) /\ IsEntity(e)
         /\ heap[e].cls = heap[b].cls.domain_cls
         /\ LET r == apply_to(heap, b, e)
            IN  /\ bq' = [t |-> "call", op |-> "apply_to", b |-> b, e |-> e]
                /\ heap' = r.heap
                /\ br' = r.out
    /\ UNCHANGED <<pipeVars, declVars>>

InitBuild ==
    /\ InitPipeIdle
    /\ declared = <<>>
    /\ lastDecl = Idle
    /\ heap \in {<<u, b>> : u \in Users, b \in BuildDTOs}
    /\ bq = Idle
    /\ br = Idle

NextBuild == ToDomain \/ ApplyTo

SpecBuild == InitBuild /\ [][NextBuild]_vars

(***************************************************************************)
(* Declaring build projection types                                        *)
(***************************************************************************)
\* The field declarations the body of a build projection is drawn from;
\* a reference is built by attribute access or FieldProxy(cls, name, path=...)
BuildFieldDecls ==
    << [name |-> "login",     field |-> Field(field_proxy("User", "username"), "-", "-")],
       [name |-> "mail",      field |-> Field(field_proxy("User", "email"), "-", "-")],
       [name |-> "city",
        field |-> Field(FieldRef("User", NoNamespace, <<"address", "city">>), "-", "-")],
       [name |-> "bad_field",
        field |-> Field(FieldRef("User", NoNamespace, <<"nonexistent">>), "-", "-")],
       [name |-> "town",      field |-> Field(field_proxy("Address", "city"), "-", "-")],
       [name |-> "ident",     field |-> Field(field_proxy("Customer", "id"), "-", "-")],
       [name |-> "email",     field |-> Field(NoSource, "-", "-")] >>

\* class B(BuildDTO[<d>], partial=<p>): up to MaxFields of the declarations
DeclareBuild ==
    \E d \in {"User", "Address", "Marker"}, p \in BOOLEAN :
      \E b \in {x \in SUBSET DOMAIN BuildFieldDecls : Cardinality(x) <= MaxFields} :
        LET idx == SelectSeq([i \in DOMAIN BuildFieldDecls |-> i], LAMBDA i : i \in b)
            names == [k \in DOMAIN idx |-> BuildFieldDecls[idx[k]].name]
            stmt == BuildStmt("B", d, p, names, EmptyMap,
                              [n \in {BuildFieldDecls[i].name : i \in b} |->
                                 BuildFieldDecls[CHOOSE i \in b :
                                                   BuildFieldDecls[i].name = n].field])
            r == BuildDTOMeta(stmt)
        IN  /\ bq' = [t |-> "class", stmt |-> stmt]
            /\ br' = [t |-> "bdecl", status |-> r.err, cls |-> r.cls]
            /\ UNCHANGED <<pipeVars, declVars, heap>>

InitBuildDecl ==
    /\ InitPipeIdle
    /\ InitOther

SpecBuildDecl == InitBuildDecl /\ [][DeclareBuild]_vars

(***************************************************************************)
(* Claims about the view pipeline (specification Spec)                     *)
(***************************************************************************)
Rank(k) ==
    CASE k = "validate" -> 1
      [] k = "before" -> 2
      [] k \in {"map", "automap"} -> 3
      [] k \in {"hidden", "construct"} -> 4
      [] k \in {"computed", "computed-unbound"} -> 5
      [] k = "after" -> 6
      [] OTHER -> 7

Has(tr, k, n) == \E a \in DOMAIN tr : tr[a].k = k /\ tr[a].n = n

\* C1: in every from_domain / afrom_domain call the stages run in the order
\* context validation, pre-build hooks, field resolution (mapped fields with
\* their transforms, then name-matched fields), construction, computed-field
\* functions, post-build hooks, each stage finishing before the next starts;
\* a computed-field function receives a constructed instance, a post-build
\* hook sees every computed value on the instance, and a call that completes
\* has run every stage.  It holds per item for every interleaving.
C1_StageOrder ==
    \A i \in Items :
      LET tr == tasks[i].trace
      IN  /\ \A a, b \in DOMAIN tr : a < b => Rank(tr[a].k) <= Rank(tr[b].k)
          /\ \A a \in DOMAIN tr : tr[a].k # "computed-unbound"
          /\ tasks[i].seen # NoInstance =>
               /\ tasks[i].seen.t = "view"
               /\ DOMAIN tasks[i].seen.computed = Range(cls.computed_methods)
          /\ tasks[i].st = "done" =>
               /\ Has(tr, "validate", "-")
               /\ \A h \in Range(cls.before_build_hooks) : Has(tr, "before", h)
               /\ \A f \in DOMAIN cls.field_mappings : Has(tr, "map", f)
               /\ Has(tr, "automap", "-") /\ Has(tr, "construct", "-")
               /\ \A m \in Range(cls.computed_methods) : Has(tr, "computed", m)
               /\ \A h \in Range(cls.after_build_hooks) : Has(tr, "after", h)

\* An asynchronous batch in which item 2 ran to completion while item 1 was
\* suspended at its computed-field function.
C1_Witness ==
    /\ mode = "async" /\ Len(entities) = 2 /\ cls.name = "UserView"
    /\ tasks[2].st = "done"
    /\ tasks[1].st = "run" /\ Has(tasks[1].trace, "computed", "display")
    /\ ~Has(tasks[1].trace, "after", "check")

DeclaresContext == cls.context_args # {}
DeclaresRequired == DeclaresContext /\ "NoneType" \notin cls.context_args
DeclaredType == CHOOSE a \in cls.context_args \ {"NoneType"} : TRUE
ContextOfDeclaredType == context.t = "obj" /\ context.cls = DeclaredType

ContextRejected ==
    \/ DeclaresRequired /\ context = NoneV
    \/ DeclaresContext /\ context # NoneV /\ ~ContextOfDeclaredType

\* C2: a call raises the context type error exactly when a required context
\* is missing or a declared context type (required or optional) is given a
\* context of another type; the error comes before any hook, transform,
\* predicate or computed function runs and no projection is returned; in
\* every other case validation lets the build proceed.
C2_ContextError ==
    \A i \in Items :
      /\ (tasks[i].st = "raised" /\ tasks[i].err = "TypeError") =>
           /\ ContextRejected
           /\ tasks[i].trace = <<>>
           /\ tasks[i].instance = NoInstance
           /\ out.t # "list"
      /\ (tasks[i].pc > 1 \/ tasks[i].st # "run") =>
           (ContextRejected <=> (tasks[i].st = "raised" /\ tasks[i].err = "TypeError"))
      /\ (tasks[i].pc > 1) => Has(tasks[i].trace, "validate", "-")

\* An optional context type given a context of another type is rejected.
C2_Witness ==
    /\ cls.context_args = {"Permissions", "NoneType"}
    /\ context = Str("wrong")
    /\ Len(entities) > 0
    /\ tasks[1].st = "raised" /\ tasks[1].err = "TypeError"
    /\ out.t = "raised"

HasPredicate(f) == f \in DOMAIN cls.potato_fields /\ cls.potato_fields[f].visible # "-"
PredicateFalse(f) ==
    IF cls.potato_fields[f].visible = "always" THEN FALSE
    ELSE ~context.f["is_admin"]

\* The value each field of UserView and of OrderView resolves to for an
\* entity.
Resolved(f, e) ==
    CASE f = "login" -> Str("UP(" \o e.f["username"].s \o ")")
      [] f = "note" -> Str("n" \o e.f["id"].s)
      [] f = "buyer_id" -> e.f["buyer"].f["id"]
      [] f = "seller_id" -> e.f["seller"].f["id"]
      [] f = "buyer_city" -> e.f["buyer"].f["address"].f["city"]
      [] OTHER -> e.f[f]

JsonKeys(js) == {js[a].key : a \in DOMAIN js}

\* C3: the hidden-field set of a built projection is exactly the set of fields
\* with a visibility predicate for which no context was passed or the
\* predicate is false; those fields are absent from dump() and dumpJson(),
\* every other declared field is present, and every field read on the live
\* instance has its resolved value.
C3_HiddenFields ==
    \A i \in Items :
      tasks[i].instance.t = "view" =>
        LET inst == tasks[i].instance
            fields == Range(cls.model_fields)
            expect == {f \in fields :
                         HasPredicate(f) /\ (context = NoneV \/ PredicateFalse(f))}
            dump == model_dump(cls, inst)
            json == model_dump_json(cls, inst)
        IN  /\ inst.hidden = expect
            /\ \A f \in fields :
                 /\ f \in expect => f \notin DOMAIN dump /\ f \notin JsonKeys(json)
                 /\ f \notin expect =>
                      /\ f \in DOMAIN dump /\ dump[f] = Resolved(f, entities[i])
                      /\ \E a \in DOMAIN json :
                           json[a] = [key |-> f,
                                      value |-> json_dumps(Resolved(f, entities[i]))]
                 /\ view_getattr(inst, f) = Resolved(f, entities[i])

\* A projection returned with email hidden by a false predicate, and one
\* returned with both predicate fields hidden because no context was passed.
C3_Witness ==
    /\ out.t = "list" /\ Len(out.items) > 0
    /\ \/ context = Permissions(FALSE) /\ out.items[1].hidden = {"email"}
       \/ context = NoneV /\ out.items[1].hidden = {"username", "email"}

BuiltFrom(inst, e) ==
    /\ inst.t = "view"
    /\ \A f \in Range(cls.model_fields) : inst.fields[f] = Resolved(f, e)

\* C7: the batch calls return a list as long as the input whose i-th
\* projection is the one built from the i-th entity, for every interleaving
\* of the asynchronous pipelines; an empty input yields an empty list.
C7_BatchOrder ==
    out.t = "list" =>
      /\ Len(out.items) = Len(entities)
      /\ \A i \in DOMAIN entities : BuiltFrom(out.items[i], entities[i])
      /\ entities = <<>> => out.items = <<>>

\* An asynchronous batch of two different entities whose second pipeline
\* returned first.
C7_Witness ==
    /\ mode = "async" /\ out.t = "list" /\ cls.name = "UserView"
    /\ Len(entities) = 2 /\ entities[1] # entities[2]
    /\ doneOrder = <<2, 1>>

(***************************************************************************)
(* Claims about declaration (specification SpecDecl)                       *)
(***************************************************************************)
\* C4: a view projection with a field named like a Sensitive field of its
\* bound entity or aggregate type is rejected with a type error at
\* declaration, also when the binding is inherited from a parent projection
\* type; no declared view projection type has such a field.
C4_SensitiveByName ==
    /\ \A k \in DOMAIN declared :
         \A f \in Range(declared[k].model_fields) :
           f \notin Schemas[declared[k].domain_cls].private
    /\ lastDecl # Idle =>
         ((\E f \in Range(lastDecl.cls.model_fields) :
              f \in Schemas[lastDecl.bound].private)
            => lastDecl.status = "TypeError")

\* A child of a declared projection of User, with no binding of its own and
\* no mapping, is rejected for its field password_hash.
C4_Witness ==
    /\ lastDecl # Idle /\ lastDecl.child /\ lastDecl.bound = "User"
    /\ lastDecl.status = "TypeError"
    /\ "password_hash" \in Range(lastDecl.cls.model_fields)
    /\ DOMAIN lastDecl.cls.field_mappings = {}
    /\ "password_hash" \notin Range(declared[1].model_fields)

\* The type a reference's path reaches before its last step.
RECURSIVE OwnerOfLast(_, _, _)
OwnerOfLast(tp, path, i) ==
    IF i >= Len(path) THEN tp
    ELSE OwnerOfLast(Schemas[tp].hints[path[i]], path, i + 1)

PointsAtSensitive(ref) ==
    ref.path[Len(ref.path)] \in Schemas[OwnerOfLast(ref.model_cls, ref.path, 1)].private

\* C5: no declared view projection type has a mapping whose reference points
\* at a Sensitive source field, whatever the projection field is called and
\* whether the reference is taken on the entity type or through an aggregate
\* field.
C5_NoSensitiveSource ==
    \A k \in DOMAIN declared :
      \A f \in DOMAIN declared[k].field_mappings :
        ~PointsAtSensitive(declared[k].field_mappings[f])

Swapped(o) == Order(o.f["seller"], o.f["buyer"])

\* C6: an explicit mapping {namespace n, path p} on an aggregate yields the
\* value reached from the aggregate's field n along p, never the value of
\* another field of the same entity type: buyer.id is the buyer's id,
\* seller.id the seller's id, buyer.address.city the city of the address of
\* the buyer, and swapping the two users swaps the two values.
C6_NamespaceResolution ==
    \A i \in Items :
      (cls.name = "OrderView" /\ tasks[i].pc > 1 + Len(cls.mapping_order)) =>
        LET md == tasks[i].mapped_data
            e == entities[i]
        IN  /\ {"buyer_id", "seller_id", "buyer_city"} \subseteq DOMAIN md
            /\ md["buyer_id"] = e.f["buyer"].f["id"]
            /\ md["seller_id"] = e.f["seller"].f["id"]
            /\ md["buyer_city"] = e.f["buyer"].f["address"].f["city"]
            /\ \A j \in Items :
                 (tasks[j].pc > 1 + Len(cls.mapping_order) /\ entities[j] = Swapped(e)) =>
                   /\ tasks[j].mapped_data["buyer_id"] = md["seller_id"]
                   /\ tasks[j].mapped_data["seller_id"] = md["buyer_id"]

\* An order between two different users and the order with the two swapped,
\* both built.
C6_Witness ==
    /\ cls.name = "OrderView" /\ out.t = "list" /\ Len(entities) = 2
    /\ entities[1].f["buyer"] # entities[1].f["seller"]
    /\ entities[2] = Swapped(entities[1])
    /\ out.items[1].fields["buyer_id"] = Str("1")
    /\ out.items[1].fields["seller_id"] = Str("2")
    /\ out.items[1].fields["buyer_city"] = Str("Paris")

(***************************************************************************)
(* Claims about the reverse mapping engine (specification SpecBuild)       *)
(***************************************************************************)
\* The entity field a build projection field corresponds to: the one it is
\* reverse-mapped to, or the one of the same name.
Corresponding(c, f) ==
    IF f \in DOMAIN c.build_field_mappings THEN c.build_field_mappings[f] ELSE f

Position(c, f) == CHOOSE i \in DOMAIN c.model_fields : c.model_fields[i] = f

\* A field of fs declared after f corresponds to the same entity field.
Shadowed(c, fs, f) ==
    \E g \in fs : /\ Position(c, g) > Position(c, f)
                  /\ Corresponding(c, g) = Corresponding(c, f)

ToDomainReturned == bq.t = "call" /\ bq.op = "to_domain" /\ br.t = "ret"
ApplyToCalled == bq.t = "call" /\ bq.op = "apply_to"

\* C8: in the entity returned by to_domain(**extra), every explicitly-set
\* field of the build projection equals the entity field it corresponds to
\* (unless extra names that entity field), and every key of extra has
\* extra's value in the entity.
C8_RoundTrip ==
    ToDomainReturned =>
      LET b == heap[bq.b]
          ent == heap[br.ref]
          extra == bq.extra
      IN  /\ \A f \in b.fields_set :
               (/\ hasattr(ent, Corresponding(b.cls, f))
                /\ Corresponding(b.cls, f) \notin DOMAIN extra) =>
                 getattr(ent, Corresponding(b.cls, f)) = b.f[f]
          /\ \A k \in DOMAIN extra : hasattr(ent, k) /\ getattr(ent, k) = extra[k]

\* C8, amended: in the entity returned by to_domain(**extra), every key of
\* extra that is a field of the entity schema has extra's value, and a key
\* that is not a field of the schema is dropped; every explicitly-set field
\* of the build projection equals the entity field it corresponds to unless
\* extra names that entity field or a field declared later in the projection
\* corresponds to the same entity field.
C8_RoundTripAmended ==
    ToDomainReturned =>
      LET b == heap[bq.b]
          ent == heap[br.ref]
          extra == bq.extra
          schema == Range(Schemas[b.cls.domain_cls].model_fields)
      IN  /\ DOMAIN ent.f = schema
          /\ \A f \in b.fields_set :
               (/\ Corresponding(b.cls, f) \in schema
                /\ Corresponding(b.cls, f) \notin DOMAIN extra
                /\ ~Shadowed(b.cls, Range(b.cls.model_fields), f)) =>
                 getattr(ent, Corresponding(b.cls, f)) = b.f[f]
          /\ \A k \in DOMAIN extra \cap schema : getattr(ent, k) = extra[k]

\* to_domain returned for a projection with login and email explicitly set
\* and an extra that names username: username is extra's, email the
\* projection's.
C8_Witness ==
    /\ ToDomainReturned
    /\ heap[bq.b].cls.name = "UserInput"
    /\ {"login", "email"} \subseteq heap[bq.b].fields_set
    /\ "username" \in DOMAIN bq.extra
    /\ getattr(heap[br.ref], "username") = Str("kx")
    /\ getattr(heap[br.ref], "email") = Str("ex")
    /\ getattr(heap[br.ref], "id") = Str("9")

\* C9: apply_to on an entity e with a build projection whose explicitly-set
\* fields are S returns an entity that has, for each field of S, the
\* projection's value at the corresponding entity field and every other
\* field equal to its value in e; unset defaults never overwrite, and with S
\* empty the call returns an entity equal to e.
C9_PartialUpdate ==
    ApplyToCalled =>
      LET b == heap[bq.b]
          e == heap[bq.e]
          S == b.fields_set
      IN  /\ S = {} => br.t = "ret"
          /\ br.t = "ret" =>
               LET r == heap[br.ref]
               IN  /\ DOMAIN r.f = DOMAIN e.f
                   /\ \A f \in S : hasattr(r, Corresponding(b.cls, f)) =>
                        getattr(r, Corresponding(b.cls, f)) = b.f[f]
                   /\ \A g \in DOMAIN r.f :
                        g \notin {Corresponding(b.cls, f) : f \in S} =>
                          getattr(r, g) = getattr(e, g)
                   /\ S = {} => r = e

\* C9, amended: as C9, for each field of S except one for which a field of
\* S declared later in the projection corresponds to the same entity field
\* (the later field's value is the one written).
C9_PartialUpdateAmended ==
    ApplyToCalled =>
      LET b == heap[bq.b]
          e == heap[bq.e]
          S == b.fields_set
      IN  /\ S = {} => br.t = "ret"
          /\ br.t = "ret" =>
               LET r == heap[br.ref]
               IN  /\ DOMAIN r.f = DOMAIN e.f
                   /\ \A f \in S :
                        (/\ hasattr(r, Corresponding(b.cls, f))
                         /\ ~Shadowed(b.cls, S, f)) =>
                          getattr(r, Corresponding(b.cls, f)) = b.f[f]
                   /\ \A g \in DOMAIN r.f :
                        g \notin {Corresponding(b.cls, f) : f \in S} =>
                          getattr(r, g) = getattr(e, g)
                   /\ S = {} => r = e

\* apply_to returned for a partial projection with only login set: username
\* is updated, every other field is the original's.
C9_Witness ==
    /\ ApplyToCalled /\ br.t = "ret"
    /\ heap[bq.b].cls.partial
    /\ heap[bq.b].fields_set = {"login"}
    /\ getattr(heap[br.ref], "username") = Str("lx")
    /\ getattr(heap[bq.e], "username") # Str("lx")
    /\ \A g \in DOMAIN heap[bq.e].f \ {"username"} :
         getattr(heap[br.ref], g) = getattr(heap[bq.e], g)

\* C10: a step of apply_to, whether it returns or raises, leaves the entity
\* it was given and the build projection as they were, and an entity it
\* returns is a new instance, distinct from the one it was given.
C10_NoMutation ==
    [][(bq'.t = "call" /\ bq'.op = "apply_to") =>
         /\ heap'[bq'.e] = heap[bq'.e]
         /\ heap'[bq'.b] = heap[bq'.b]
         /\ br'.t = "ret" =>
              /\ br'.ref # bq'.e
              /\ br'.ref \notin DOMAIN heap
              /\ br'.ref \in DOMAIN heap']_vars

\* apply_to returned an entity that differs from the one it was given, which
\* still has its old value.
C10_Witness ==
    /\ ApplyToCalled /\ br.t = "ret"
    /\ br.ref # bq.e
    /\ heap[br.ref] # heap[bq.e]
    /\ heap[bq.e] \in Users

(***************************************************************************)
(* Claims about exceptions of application functions (specification SpecEx) *)
(***************************************************************************)
Ops == from_domain(cls)

\* What the function called at step p of item i raises, "-" when it returns.
WouldRaise(i, p) ==
    LET op == Ops[p]
    IN  CASE op.k \in {"before", "computed"} -> raises(op.n, entities[i])
          [] op.k = "map" ->
               LET ref == cls.field_mappings[op.n]
                   v == resolve_field_value(entities[i], ref.namespace, ref.path,
                                            cls.is_aggregate_view)
               IN  IF v # SENTINEL THEN raises(cls.potato_fields[op.n].transform, v)
                   ELSE "-"
          [] op.k = "after" -> raises(op.n, tasks[i].instance)
          [] OTHER -> "-"

\* C11: what a pre-build hook, a transform, a computed-field function or a
\* post-build hook raises is not caught: the pipeline stops at that step
\* with that exception, nothing later in it runs, the item yields no
\* projection and the batch call raises instead of returning a list.
C11_Propagates ==
    /\ \A i \in Items : \A p \in DOMAIN Ops :
         WouldRaise(i, p) # "-" =>
           /\ tasks[i].pc <= p
           /\ tasks[i].st # "done"
           /\ out.t # "list"
           /\ tasks[i].pc = p /\ tasks[i].st # "run" =>
                /\ tasks[i].st = "raised"
                /\ tasks[i].err = WouldRaise(i, p)
                /\ tasks[i].trace = SubSeq(Ops, 1, p)
                /\ Ops[p].k \in {"before", "map"} => tasks[i].instance = NoInstance
    /\ \A i \in Items : tasks[i].st = "raised" => tasks[i].trace = SubSeq(Ops, 1, tasks[i].pc)
    /\ out.t = "raised" => \E i \in Items : tasks[i].st = "raised" /\ out.err = tasks[i].err
    /\ out.t = "raised" /\ mode = "sync" =>
         \E i \in Items : /\ tasks[i].st = "raised" /\ out.err = tasks[i].err
                           /\ \A j \in Items : j > i => tasks[j] = NewTask

\* A post-build hook raised on an instance that was built, and the batch
\* call raised its exception; the hook after it did not run.
C11_Witness ==
    /\ out.t = "raised" /\ out.err = "ValueError(validate_username)"
    /\ \E i \in Items :
         /\ tasks[i].st = "raised" /\ tasks[i].instance.t = "view"
         /\ tasks[i].calls = <<"enrich", "upper", "GuardedView.display", "validate_username">>

(***************************************************************************)
(* Claims about declaring build projections (specification SpecBuildDecl)  *)
(***************************************************************************)
Sourced(stmt) == {f \in DOMAIN stmt.potato_fields : stmt.potato_fields[f].source # NoSource}

DeepOrUnknown(stmt) ==
    \E f \in Sourced(stmt) :
      LET ref == stmt.potato_fields[f].source
      IN  \/ Len(ref.path) > 1
          \/ ref.path[Len(ref.path)] \notin Range(Schemas[stmt.domain].model_fields)

\* C12: a build projection declared with a reverse mapping that has a path
\* of more than one step, or whose target field is not a field of the bound
\* entity schema, is rejected with a type error; in every declared build
\* projection type each entry of the reverse table names a field of the
\* bound entity schema.
C12_ReverseMapping ==
    br.t = "bdecl" =>
      /\ DeepOrUnknown(bq.stmt) => br.status = "TypeError"
      /\ br.status = "ok" =>
           \A f \in DOMAIN br.cls.build_field_mappings :
             br.cls.build_field_mappings[f]
               \in Range(Schemas[br.cls.domain_cls].model_fields)

(***************************************************************************)
(* Claims about references that do not resolve (specification SpecEx)      *)
(***************************************************************************)
PosOf(k, n) == CHOOSE p \in DOMAIN Ops : Ops[p] = Op(k, n)

\* The reference of the explicit mapping f finds no value on item i.
Missed(i, f) ==
    /\ f \in DOMAIN cls.field_mappings
    /\ resolve_field_value(entities[i], cls.field_mappings[f].namespace,
                           cls.field_mappings[f].path, cls.is_aggregate_view) = SENTINEL

\* What holds of a missed mapping up to name matching and at construction,
\* given whether the field has a value when construction is reached.
MissHandled(i, f) ==
    LET t == tasks[i]
        p == PosOf("map", f)
        c == PosOf("construct", "-")
    IN  /\ t.pc = p => t.st = "run"
        /\ cls.potato_fields[f].transform \notin Range(t.calls)
        /\ (t.pc > p /\ t.pc <= PosOf("automap", "-")) => f \notin DOMAIN t.mapped_data
        /\ (t.pc >= c /\ f \notin DOMAIN t.mapped_data) =>
             IF f \in DOMAIN cls.defaults
             THEN t.pc > c => /\ t.instance.t = "view"
                              /\ t.instance.fields[f] = cls.defaults[f]
             ELSE /\ t.pc = c
                  /\ t.st # "run" => t.st = "raised" /\ t.err = "ValidationError"
                  /\ t.instance = NoInstance

SourceOf(i, f) ==
    IF f \in DOMAIN cls.field_mappings
    THEN resolve_field_value(entities[i], cls.field_mappings[f].namespace,
                             cls.field_mappings[f].path, cls.is_aggregate_view)
    ELSE getattr(entities[i], f)

\* The whole pipeline of the projection type of field f, run on v with the
\* context of the outer call.
Built(f, v) == from_domain_call(cls.nested_hints[f].inner, v, context)

\* C14: the projection a finished call returns is what the whole pipeline
\* yields for its entity and context, in sync and async mode alike; its
\* field typed as a projection type holds the projection the whole pipeline
\* builds, with the same context, from the field's source value, and its
\* field typed as a list of a projection type holds a list as long as the
\* source list whose k-th element is the projection built from the k-th
\* source element, an empty list staying empty.
C14_Nested ==
    \A i \in Items :
      tasks[i].st = "done" =>
        /\ tasks[i].instance = from_domain_call(cls, entities[i], context).instance
        /\ \A f \in DOMAIN cls.nested_hints :
             LET src == SourceOf(i, f)
                 got == tasks[i].instance.fields[f]
             IN  IF cls.nested_hints[f].is_list
                 THEN /\ got.t = "list"
                      /\ Len(got.items) = Len(src.items)
                      /\ \A k \in DOMAIN src.items :
                           /\ Built(f, src.items[k]).err = "-"
                           /\ got.items[k] = Built(f, src.items[k]).instance
                           /\ got.items[k].t = "view"
                 ELSE /\ Built(f, src).err = "-"
                      /\ got = Built(f, src).instance
                      /\ got.t = "view"

\* An asynchronous batch returned a team projection whose two members are
\* the projections of two different users, built with the batch's context:
\* the email of each is hidden from a non-admin.
C14_Witness ==
    /\ mode = "async"
    /\ cls.name = "TeamView"
    /\ context = Permissions(FALSE)
    /\ out.t = "list"
    /\ \E i \in Items :
         LET ms == out.items[i].fields["members"].items
         IN  /\ Len(entities[i].f["members"].items) = 2
             /\ Len(ms) = 2
             /\ ms[1] # ms[2]
             /\ ms[1].fields["id"] = Str("2")
             /\ "email" \in ms[1].hidden
             /\ out.items[i].fields["captain"].fields["id"] = Str("1")

(***************************************************************************)
(* Claims about a projection type that extends another                     *)
(* (specification SpecInherit)                                             *)
(***************************************************************************)
\* The parent type, the child's class statement, and what the child's own
\* body declares.
ParentCls == declared[1]
ChildStmt == lastDecl.stmt
OwnFields == DOMAIN ChildStmt.potato
OwnComputed == Range(ChildStmt.computed)

\* The entry in force on the child for a name either of them declares.
EntryInForce(f) ==
    IF f \in OwnFields THEN ChildStmt.potato[f] ELSE ParentCls.potato_fields[f]
FnInForce(n) ==
    IF n \in OwnComputed THEN ChildStmt.name \o "." \o n ELSE ParentCls.computed_fns[n]

\* The child's tables are the parent's overlaid with its own entries.
TablesOverlaid ==
    /\ DOMAIN cls.potato_fields = DOMAIN ParentCls.potato_fields \cup OwnFields
    /\ \A f \in DOMAIN cls.potato_fields : cls.potato_fields[f] = EntryInForce(f)
    /\ DOMAIN cls.field_mappings =
         {f \in DOMAIN cls.potato_fields : EntryInForce(f).source # NoSource}
    /\ \A f \in DOMAIN cls.field_mappings : cls.field_mappings[f] = EntryInForce(f).source
    /\ Range(cls.computed_methods) = Range(ParentCls.computed_methods) \cup OwnComputed
    /\ \A n \in Range(cls.computed_methods) : cls.computed_fns[n] = FnInForce(n)

\* The transforms and computed functions of both types that a call must
\* not have made: those of parent entries the child redeclared differently.
ShadowedFns ==
    {ParentCls.potato_fields[f].transform :
        f \in {g \in OwnFields \cap DOMAIN ParentCls.potato_fields :
                 ParentCls.potato_fields[g].transform # ChildStmt.potato[g].transform}}
    \cup {ParentCls.computed_fns[n] : n \in OwnComputed \cap Range(ParentCls.computed_methods)}

\* The projection a finished call returned was built with the entries in force.
BuiltWithEntriesInForce(i) ==
    LET inst == tasks[i].instance
        e == entities[i]
    IN  /\ \A f \in DOMAIN cls.potato_fields :
             LET E == EntryInForce(f)
             IN  /\ inst.fields[f] =
                      IF E.source = NoSource THEN getattr(e, f)
                      ELSE apply_transform(E, resolve_field_value(e, E.source.namespace,
                                                                  E.source.path, FALSE),
                                           context)
                 /\ (E.source # NoSource /\ E.transform # "-") =>
                      E.transform \in Range(tasks[i].calls)
                 /\ f \in inst.hidden <=>
                      (E.visible # "-" /\ visible(E.visible, context) = "false")
        /\ \A n \in Range(cls.computed_methods) :
             /\ FnInForce(n) \in Range(tasks[i].calls)
             /\ inst.computed[n] = computed_method(FnInForce(n), inst, e, context)
        /\ ShadowedFns \cap Range(tasks[i].calls) = {}

C15_WitnessInherited ==
    /\ lastDecl.t = "decl" /\ lastDecl.child /\ cls = lastDecl.cls
    /\ OwnFields = {} /\ OwnComputed = {}
    /\ out.t = "list"
    /\ \E i \in Items :
         /\ out.items[i].fields["login"] = Str("UP(alice)")
         /\ out.items[i].hidden = {"email"}
         /\ out.items[i].computed["display"] = Str("UP(alice)/1")

(***************************************************************************)
(* Claims about renamed fields (specification SpecEx)                      *)
(***************************************************************************)
\* f is explicitly mapped from a differently named field of the bound entity.
Renamed(f) ==
    /\ f \in DOMAIN cls.field_mappings
    /\ ~cls.is_aggregate_view
    /\ Len(cls.field_mappings[f].path) = 1
    /\ cls.field_mappings[f].path[1] # f

SourceName(f) == cls.field_mappings[f].path[1]

Dump(i) == model_dump(cls, tasks[i].instance)

C17_Idempotent ==
    \A i \in Items :
      tasks[i].st = "done" =>
        /\ tasks[i].instance = from_domain_call(cls, entities[i], context).instance
        /\ \A j \in Items :
             (tasks[j].st = "done" /\ entities[j] = entities[i]) =>
               /\ tasks[j].instance.fields = tasks[i].instance.fields
               /\ tasks[j].instance.computed = tasks[i].instance.computed
               /\ tasks[j].instance.hidden = tasks[i].instance.hidden
               /\ model_dump(cls, tasks[j].instance) = model_dump(cls, tasks[i].instance)
               /\ model_dump_json(cls, tasks[j].instance)
                    = model_dump_json(cls, tasks[i].instance)

\* A batch of two equal users returned two equal projections with a hidden
\* field and a computed field.
C17_Witness ==
    /\ out.t = "list"
    /\ Len(out.items) = 2
    /\ entities[1] = entities[2]
    /\ out.items[1] = out.items[2]
    /\ out.items[1].hidden # {}
    /\ DOMAIN out.items[1].computed # {}

(***************************************************************************)
(* Claims about the references of a declaration (specification SpecRef)    *)
(***************************************************************************)
\* The owning types a mapping of a projection bound to d may name.
AllowedOwners(d) ==
    IF Schemas[d].aggregate
    THEN {d} \cup {Schemas[d].hints[f] : f \in {g \in Range(Schemas[d].model_fields) :
                                                  Schemas[d].hints[g] \in DomainNames}}
    ELSE {d}

\* The mapped fields of the last class statement, in the order of its body,
\* and those whose reference names an owning type that is not allowed.
MappedOrder == lastDecl.stmt.potato_order
RefOf(f) == lastDecl.stmt.potato[f].source
OwnerOffending == {f \in Range(MappedOrder) : RefOf(f).model_cls \notin AllowedOwners(lastDecl.bound)}

\* The type a path starts from, and whether every step of the path exists
\* on the type reached by the steps before it, none following a step whose
\* type is not an entity type.
StartOf(ref, d) ==
    IF ref.namespace # NoNamespace /\ Schemas[d].aggregate
       /\ ref.namespace \in Range(Schemas[d].model_fields)
    THEN Schemas[d].hints[ref.namespace] ELSE ref.model_cls

RECURSIVE WellFormed(_, _, _)
WellFormed(tp, path, i) ==
    IF i > Len(path) THEN TRUE
    ELSE /\ tp \in DomainNames
         /\ path[i] \in Range(Schemas[tp].model_fields)
         /\ WellFormed(Schemas[tp].hints[path[i]], path, i + 1)

PathOffending ==
    {f \in Range(MappedOrder) : ~WellFormed(StartOf(RefOf(f), lastDecl.bound), RefOf(f).path, 1)}

FirstOf(fs) ==
    MappedOrder[CHOOSE k \in DOMAIN MappedOrder :
                  /\ MappedOrder[k] \in fs
                  /\ \A j \in DOMAIN MappedOrder : MappedOrder[j] \in fs => k <= j]

\* C18: a class statement with a mapping whose owning type is not allowed
\* (for a projection bound to an entity type, any type but that one; for one
\* bound to an aggregate, any type but the aggregate and the types of its
\* entity-typed fields) fails with a TypeError and declares nothing; the
\* error names the projection and the first mapping of the body that is
\* rejected, which is the first with a disallowed owner unless a mapping
\* before it has a path step that does not exist.
C18_OwnerRejected ==
    (lastDecl.t = "decl" /\ OwnerOffending # {}) =>
      /\ lastDecl.status = "TypeError"
      /\ declared = <<>>
      /\ lastDecl.blame.cls = lastDecl.stmt.name
      /\ lastDecl.blame.field \in OwnerOffending \cup PathOffending
      /\ \/ lastDecl.blame.field = FirstOf(OwnerOffending)
         \/ \E k, j \in DOMAIN MappedOrder :
              /\ k < j
              /\ MappedOrder[k] = lastDecl.blame.field
              /\ MappedOrder[k] \in PathOffending
              /\ MappedOrder[j] = FirstOf(OwnerOffending)

\* A projection bound to the aggregate Order mapped a field from Address,
\* which is not the type of a field of Order: TypeError naming V and town.
C18_Witness ==
    /\ lastDecl.t = "decl"
    /\ lastDecl.bound = "Order"
    /\ OwnerOffending = {"town"}
    /\ "buyer_id" \in Range(MappedOrder)
    /\ lastDecl.status = "TypeError"
    /\ lastDecl.blame = [cls |-> "V", field |-> "town"]

\* C19: every explicit mapping of a declared view projection has a path in
\* which every step exists on the type reached by the steps before it and no
\* step follows a leaf-typed or optional-typed step; a class statement with
\* a path that is not so fails.
C19_PathsValid ==
    lastDecl.t = "decl" =>
      /\ PathOffending # {} => lastDecl.status = "TypeError"
      /\ lastDecl.status = "ok" =>
           \A f \in DOMAIN lastDecl.cls.field_mappings :
             WellFormed(StartOf(lastDecl.cls.field_mappings[f], lastDecl.bound),
                        lastDecl.cls.field_mappings[f].path, 1)

(***************************************************************************)
(* Claims about the registry of a declared type (specification             *)
(* SpecRegistry)                                                           *)
(***************************************************************************)
\* The mapping registry of a projection type.
Registry(c) ==
    [potato_fields |-> c.potato_fields, field_mappings |-> c.field_mappings,
     mapping_order |-> c.mapping_order,
     computed_methods |-> c.computed_methods, computed_fns |-> c.computed_fns,
     before_build_hooks |-> c.before_build_hooks,
     after_build_hooks |-> c.after_build_hooks,
     context_type |-> c.context_type, context_required |-> c.context_required]

\* C20: no step of a batch call, sync or async, no dump and no declaration
\* of a child type changes the registry of a declared type; the type a call
\* runs on is, at every step, one of the declared types as it was declared.
C20_RegistryFixed ==
    [][/\ \A k \in DOMAIN declared :
            /\ k \in DOMAIN declared'
            /\ Registry(declared'[k]) = Registry(declared[k])
       /\ Registry(cls') = Registry(cls)
       /\ \E k \in DOMAIN declared' : declared'[k] = cls']_vars

\* The parent was called and its projections dumped, a child that
\* redeclares login and display was declared meanwhile, and the parent's
\* registry still has its own login entry and display function.
C20_Witness ==
    /\ out.t = "dumped"
    /\ Len(out.items) = 2
    /\ mode = "async"
    /\ lastDecl.t = "decl"
    /\ Len(declared) = 2
    /\ cls = declared[1]
    /\ declared[1] = UserView({})
    /\ declared[2].computed_fns["display"] = "AdminView.display"
    /\ declared[1].computed_fns["display"] = "UserView.display"
    /\ declared[2].potato_fields["login"] # declared[1].potato_fields["login"]

(***************************************************************************)
(* Claims about the two execution modes (specification SpecEx)             *)
(***************************************************************************)
\* What the synchronous from_domain returns or raises for item i.
SyncResult(i) == from_domain_call(cls, entities[i], context)

C21_WitnessRaise ==
    /\ mode = "async"
    /\ out.t = "raised"
    /\ \E i \in Items : tasks[i].st = "raised" /\ SyncResult(i).err = out.err

(***************************************************************************)
(* Claims about lifecycle hooks                                            *)
(***************************************************************************)
\* The number of times the function h was called in the i-th call.
Invocations(i, h) == Cardinality({k \in DOMAIN tasks[i].calls : tasks[i].calls[k] = h})

\* The hooks declared on the called type or on a type it extends.
DeclaredHooks ==
    Range(cls.before_build_hooks) \cup Range(cls.after_build_hooks)

\* C22: in one finished from_domain call every pre-build hook and every
\* post-build hook declared on the called type or on a type it extends has
\* been invoked exactly once, also when the called type declares no hook of
\* its own and only inherits its parent's hooks.
C22_HooksOnce ==
    \A i \in Items :
      tasks[i].st = "done" =>
        \A h \in DeclaredHooks : Invocations(i, h) = 1


(***************************************************************************)
(* Calls on a projection type with several pre-build hooks                 *)
(***************************************************************************)
MaxHooks == 2

HookNames == {"enrich", "stamp", "relabel", "tag", "guard"}

\* The lists of at most MaxHooks different hooks; a call is handed the batch
\* of one entity, or the empty one.
HookLists ==
    {hs \in UNION {[1..n -> HookNames] : n \in 0..MaxHooks} :
       \A a, b \in DOMAIN hs : a # b => hs[a] # hs[b]}

\* class HookedView(ViewDTO[User]):
\*     id: str
\*     login: str = Field(source=User.username, transform=upper)
\*     username: str
\*     note: str = ""
\*     @computed display, @before_build <hooks>, @after_build check
HookedView(hooks) ==
    ViewDTOMeta(ClassStmt("HookedView", class_getitem("User", {}), <<>>,
        <<"id", "login", "username", "note">>,
        [login |-> Field(field_proxy("User", "username"), "upper", "-")],
        <<"login">>,
        [note |-> Str("")],
        <<"display">>, hooks, <<"check">>)).cls

InitHooks ==
    /\ mode \in {"sync", "async"}
    /\ \E hooks \in HookLists : cls = HookedView(hooks)
    /\ entities \in {<<>>} \cup {<<u>> : u \in Users}
    /\ context = NoneV
    /\ tasks = [i \in DOMAIN entities |-> NewTask]
    /\ running = 0
    /\ doneOrder = <<>>
    /\ out = NoOut
    /\ InitOther

SpecHooks == InitHooks /\ [][Next]_vars

\* What the k-th pre-build hook of the called type returns in the i-th call.
HookReturned(i, k) == before_hook(cls.before_build_hooks[k], entities[i], context)

\* The hooks, by position, whose returned map has the field f.
Returning(i, f) ==
    {k \in DOMAIN cls.before_build_hooks :
       HookReturned(i, k).t = "dict" /\ f \in DOMAIN HookReturned(i, k).d}

Latest(ks) == CHOOSE k \in ks : \A j \in ks : j <= k

\* The value of f by its explicit mapping, after its transform, or by name.
ResolvedValue(i, f) ==
    IF f \in DOMAIN cls.field_mappings
    THEN LET ref == cls.field_mappings[f]
         IN  apply_transform(cls.potato_fields[f],
                             resolve_field_value(entities[i], ref.namespace, ref.path,
                                                 cls.is_aggregate_view),
                             context)
    ELSE IF hasattr(entities[i], f) THEN getattr(entities[i], f)
    ELSE cls.defaults[f]

\* C23: a projection is constructed with, for each field f, the value the
\* last pre-build hook whose returned map contains f returned for it, and
\* when no hook returns f the value of its explicit mapping (after the
\* transform) or of the source field of the same name; a hook result that is
\* not a map contributes nothing.
C23_Precedence ==
    \A i \in Items : \A f \in Range(cls.model_fields) :
      tasks[i].st = "done" =>
        tasks[i].instance.fields[f] =
          IF Returning(i, f) # {} THEN HookReturned(i, Latest(Returning(i, f))).d[f]
          ELSE ResolvedValue(i, f)

C23_Witness ==
    \E i \in Items :
      /\ tasks[i].st = "done"
      /\ cls.before_build_hooks = <<"stamp", "relabel">>
      /\ tasks[i].instance.fields["login"] = Str("relabel")
      /\ tasks[i].instance.fields["note"] = Str("s")
      /\ tasks[i].instance.fields["username"] = Str("r")
      /\ tasks[i].instance.fields["id"] = getattr(entities[i], "id")

C23_WitnessNotAMap ==
    \E i \in Items :
      /\ tasks[i].st = "done"
      /\ cls.before_build_hooks = <<"enrich", "tag">>
      /\ tasks[i].instance.fields["login"] = Str("UP(alice)")
      /\ tasks[i].instance.fields["note"] = Str("n1")


(***************************************************************************)
(* Claims about name matching (specification SpecEx)                       *)
(***************************************************************************)
\* C24: name matching is applied only to the fields with no explicit
\* mapping: a field whose explicit mapping misses for the entity, and which
\* no pre-build hook returns, is at no point of the build among the values
\* collected for construction, whatever attributes the entity has.
C24_NameMatchingUnmappedOnly ==
    \A i \in Items : \A f \in DOMAIN cls.field_mappings :
      (Missed(i, f) /\ f \notin DOMAIN tasks[i].extra_data) =>
        f \notin DOMAIN tasks[i].mapped_data


(***************************************************************************)
(* Claims about the dump of nested projections (specification SpecEx)      *)
(***************************************************************************)
\* The entry dump() must have for a value built by the projection type inner.
NestedDump(inner, v) ==
    IF v.t = "view" THEN Dict(model_dump(inner, v))
    ELSE IF v.t = "list"
         THEN [v EXCEPT !.items = [k \in DOMAIN v.items |->
                                     IF v.items[k].t = "view"
                                     THEN Dict(model_dump(inner, v.items[k]))
                                     ELSE v.items[k]]]
         ELSE v

\* C25: in dump() of a returned projection the entry of a field holding a
\* nested projection, and each element of a field holding a list of them, is
\* that nested projection's own dump(): without its hidden fields and with
\* its computed values.
C25_NestedDump ==
    \A i \in Items : \A f \in DOMAIN cls.nested_hints :
      (tasks[i].st = "done" /\ f \in DOMAIN Dump(i)) =>
        Dump(i)[f] = NestedDump(cls.nested_hints[f].inner, tasks[i].instance.fields[f])


(***************************************************************************)
(* Claims about reverse mappings (specification SpecBuildDecl)             *)
(***************************************************************************)
\* The reverse mappings of the latest class statement whose reference is
\* owned by another type than the one the build projection is bound to.
ForeignSources ==
    {f \in DOMAIN bq.stmt.potato_fields :
       /\ bq.stmt.potato_fields[f].source # NoSource
       /\ bq.stmt.potato_fields[f].source.model_cls # bq.stmt.domain}

\* C26: declaring a build projection bound to the entity type E with a
\* reverse mapping whose reference is owned by another type than E fails
\* with TypeError, also when E has a field of the referenced field's name.
C26_ForeignOwnerRejected ==
    (br.t = "bdecl" /\ ForeignSources # {}) => br.status = "TypeError"

\* The same for the entity types that have a field of the referenced name.
C26_ForeignOwnerSameName ==
    (/\ br.t = "bdecl"
     /\ \E f \in ForeignSources :
          field_name(bq.stmt.potato_fields[f].source)
            \in Range(Schemas[bq.stmt.domain].model_fields))
      => br.status = "TypeError"


(***************************************************************************)
(* Claims about references into an aggregate (specification SpecRef)       *)
(***************************************************************************)
\* The mappings of the last class statement that name a field of another
\* type than the bound one directly on that type, with no namespace.
Unqualified ==
    {f \in Range(MappedOrder) :
       /\ RefOf(f).namespace = NoNamespace
       /\ RefOf(f).model_cls # lastDecl.bound}

\* C27: a class statement for a view projection bound to an aggregate with a
\* mapping that names a field of a member entity type without going through
\* one of the aggregate's entity-typed fields fails with a TypeError and
\* declares nothing.
C27_ThroughAggregateField ==
    (/\ lastDecl.t = "decl"
     /\ Schemas[lastDecl.bound].aggregate
     /\ Unqualified # {})
      => lastDecl.status = "TypeError" /\ declared = <<>>


(***************************************************************************)
(* Asynchronous calls on a projection type with nested projections         *)
(***************************************************************************)
\* class RosterView(ViewDTO[Team]):
\*     name: str
\*     captain: <inner> = Field(source=Team.lead)
\*     lead: <inner>
\*     members: list[<inner>]
\*     @before_build enrich, @computed headcount, @after_build check
RosterView(inner) ==
    [ViewDTOMeta(ClassStmt("RosterView", class_getitem("Team", {}), <<>>,
        <<"name", "captain", "lead", "members">>,
        [captain |-> Field(field_proxy("Team", "lead"), "-", "-")],
        <<"captain">>,
        EmptyMap, <<"headcount">>, <<"enrich">>, <<"check">>)).cls
     EXCEPT !.nested_hints =
        [captain |-> [is_list |-> FALSE, inner |-> inner],
         lead    |-> [is_list |-> FALSE, inner |-> inner],
         members |-> [is_list |-> TRUE,  inner |-> inner]]]

\* The nested type calls no function (LoginView), or has a transform, hooks
\* and a computed field (GuardedView).
InitAwait ==
    /\ mode \in {"sync", "async"}
    /\ cls \in {RosterView(LoginView), RosterView(GuardedView("after"))}
    /\ entities \in UNION {[1..n -> Teams] : n \in 0..MaxItems}
    /\ context = NoneV
    /\ tasks = [i \in DOMAIN entities |-> NewTask]
    /\ running = 0
    /\ doneOrder = <<>>
    /\ out = NoOut
    /\ InitOther

SpecAwait == InitAwait /\ [][Next]_vars

\* The i-th pipeline took a step, is not finished, and gave up control.
GaveUpControl(i) ==
    /\ mode = "async"
    /\ tasks'[i] # tasks[i]
    /\ tasks'[i].st = "run"
    /\ running' = 0

\* The step the i-th pipeline is at invokes a hook, a transform or a
\* computed-field function of the called type.
AtInvocation(i) ==
    \/ CurOp(i).k \in {"before", "computed", "after"}
    \/ /\ CurOp(i).k = "map"
       /\ cls.potato_fields[CurOp(i).n].transform # "-"

\* The values the step the i-th pipeline is at builds nested projections
\* from, by field.
NestedInputs(i) ==
    LET op == CurOp(i)
        fs == IF op.k = "map"
              THEN {n \in {op.n} \cap DOMAIN cls.nested_hints : SourceOf(i, n) # SENTINEL}
              ELSE IF op.k = "automap"
                   THEN {n \in DOMAIN cls.nested_hints :
                           n \notin DOMAIN tasks[i].mapped_data /\ hasattr(entities[i], n)}
                   ELSE {}
    IN  [f \in fs |-> IF CurOp(i).k = "map"
                      THEN SourceOf(i, f) ELSE getattr(entities[i], f)]

\* The step builds a nested projection whose type calls a function.
AtNestedInvocation(i) ==
    \E f \in DOMAIN NestedInputs(i) :
      NestedInputs(i)[f] # NoneV /\ InvokesFunction(cls.nested_hints[f].inner)

\* The step builds the projections of a list that is not empty.
AtGather(i) ==
    \E f \in DOMAIN NestedInputs(i) :
      /\ cls.nested_hints[f].is_list
      /\ NestedInputs(i)[f].t = "list"
      /\ NestedInputs(i)[f].items # <<>>

C29_ApplyToIdempotent ==
    \A b, e \in DOMAIN heap :
      (IsDto(b) /\ IsEntity(e) /\ heap[e].cls = heap[b].cls.domain_cls) =>
        LET once == apply_to(heap, b, e)
        IN  once.out.t = "ret" =>
              LET twice == apply_to(once.heap, b, once.out.ref)
              IN  /\ twice.out.t = "ret"
                  /\ twice.heap[twice.out.ref] = once.heap[once.out.ref]

\* The projection was applied to an entity, which it changed, and then to
\* the entity that call returned.
C29_Witness ==
    /\ Len(heap) = 4
    /\ bq = [t |-> "call", op |-> "apply_to", b |-> 2, e |-> 3]
    /\ br = Returned(4)
    /\ LET once == apply_to(SubSeq(heap, 1, 2), 2, 1)
       IN  /\ once.out = Returned(3)
           /\ heap[3] = once.heap[3]
    /\ heap[3] # heap[1]
    /\ heap[4] = heap[3]


(***************************************************************************)
(* Calls on an aggregate projection whose functions take sub-entities      *)
(***************************************************************************)
\* class PartiesView(ViewDTO[Order]):
\*     buyer_id: str = Field(source=Order.buyer.id, default="?")
\*     amount: str
\*     collected: Any = None
\*     @before_build collect, @computed received, @after_build audit
PartiesView ==
    ViewDTOMeta(ClassStmt("PartiesView", class_getitem("Order", {}), <<>>,
        <<"buyer_id", "amount", "collected">>,
        [buyer_id |-> Field(domain_field_accessor("Order", "buyer", <<"id">>), "-", "-")],
        <<"buyer_id">>,
        [buyer_id |-> Str("?"), collected |-> NoneV],
        <<"received">>, <<"collect">>, <<"audit">>)).cls

\* An Order with no buyer attribute: Order.model_construct(seller=bob, ...)
OrderNoBuyer ==
    Obj("Order", [seller |-> User("2", "bob", "b@x.com", "Rome"),
                  amount |-> Str("100"), audit_key |-> Str("k")])

\* Orders whose buyer and seller differ, and orders lacking one of them.
PartyOrders ==
    {o \in Orders : getattr(o, "buyer") # getattr(o, "seller")}
    \cup {OrderNoSeller, OrderNoBuyer}

InitParams ==
    /\ mode \in {"sync", "async"}
    /\ cls = PartiesView
    /\ entities \in UNION {[1..n -> PartyOrders] : n \in 0..MaxItems}
    /\ context \in {NoneV, Permissions(TRUE)}
    /\ tasks = [i \in DOMAIN entities |-> NewTask]
    /\ running = 0
    /\ doneOrder = <<>>
    /\ out = NoOut
    /\ InitOther

SpecParams == InitParams /\ [][Next]_vars

\* The entity-typed fields of the type of e, in declaration order, and the
\* value of the first of them that holds an instance of tp.
EntityFields(e) ==
    SelectSeq(Schemas[e.cls].model_fields,
              LAMBDA f : Schemas[e.cls].hints[f] \in DomainNames)

FirstInstance(e, tp) ==
    LET fs == EntityFields(e)
        k == CHOOSE k \in DOMAIN fs :
               /\ hasattr(e, fs[k]) /\ getattr(e, fs[k]).t = "obj"
               /\ getattr(e, fs[k]).cls = tp
               /\ \A j \in 1..(k - 1) :
                    ~(hasattr(e, fs[j]) /\ getattr(e, fs[j]).t = "obj"
                      /\ getattr(e, fs[j]).cls = tp)
    IN  getattr(e, fs[k])

\* C30: on an aggregate source a parameter named context receives the
\* context, one with no annotation the whole source, one annotated with the
\* type of the source the source, and one annotated with an entity type the
\* sub-entity of the first field of the aggregate, in declaration order,
\* that holds an instance of it, whatever the parameter is called: buyer and
\* seller, both annotated User, receive the same sub-entity, in computed
\* functions and in hooks, in synchronous and in asynchronous mode.
C30_ParameterMatching ==
    \A i \in Items :
      LET e == entities[i]
          first == FirstInstance(e, "User")
          t == tasks[i]
      IN  /\ t.instance # NoInstance =>
                t.instance.fields["collected"] =
                  Received([seller |-> first, context |-> context])
          /\ t.pc > PosOf("computed", "received") =>
                t.instance.computed["received"] =
                  Received([buyer |-> first, seller |-> first, order |-> e,
                            whole |-> e, context |-> context])
          /\ t.st = "done" => getattr(first, "id") # Str("2")
          /\ t.st = "raised" =>
                /\ t.err = "ValueError(audit)"
                /\ t.pc = PosOf("after", "audit")
                /\ getattr(first, "id") = Str("2")

\* An asynchronous call returned for an order whose buyer and seller
\* differ, and the parameter seller was handed the buyer.
C30_Witness ==
    \E i \in Items :
      /\ mode = "async"
      /\ tasks[i].st = "done"
      /\ hasattr(entities[i], "buyer") /\ hasattr(entities[i], "seller")
      /\ getattr(entities[i], "buyer") # getattr(entities[i], "seller")
      /\ tasks[i].instance.computed["received"].kw["seller"] = getattr(entities[i], "buyer")
      /\ tasks[i].instance.computed["received"].kw["whole"] = entities[i]

\* A call for an order built without a buyer handed buyer the seller, and
\* the post-build hook raised for it.
C30_WitnessNoBuyer ==
    \E i \in Items :
      /\ entities[i] = OrderNoBuyer
      /\ tasks[i].pc = PosOf("after", "audit")
      /\ tasks[i].st = "raised"
      /\ tasks[i].instance.computed["received"].kw["buyer"] = getattr(entities[i], "seller")

====
